---- MODULE Spec2Model ----
(***************************************************************************)
(* ShredOS Vault: authentication gate, dead man's switch and secure wipe   *)
(* engines.                                                                *)
(*                                                                         *)
(* Two programs of the repository are modelled.  prog = "vault" is the     *)
(* gate (main.c, auth.c, deadman.c, wipe.c); prog = "secure_wipe" is the   *)
(* standalone macOS wiper (macos/secure_wipe.c).  One behaviour runs one   *)
(* program; Init draws the program, its build platform and configuration.  *)
(***************************************************************************)
EXTENDS Integers, Sequences, FiniteSets, TLC

(***************************************************************************)
(* Bounds                                                                  *)
(***************************************************************************)
MaxAttempts == 2

(***************************************************************************)
(* Enumerations                                                            *)
(***************************************************************************)
\* config.h: wipe_algorithm_t
WipeAlgorithms ==
    {"WIPE_GUTMANN", "WIPE_DOD_522022", "WIPE_DOD_SHORT", "WIPE_RANDOM",
     "WIPE_ZERO", "WIPE_VERIFY_ONLY"}

\* macos/secure_wipe.h: wipe_algorithm_t
SwAlgorithms ==
    {"ALG_GUTMANN", "ALG_DOD_522022M", "ALG_SCHNEIER", "ALG_RANDOM", "ALG_ZERO"}

\* platform.h: the three build targets
Platforms == {"linux", "macos", "windows"}

\* config.h: auth_method_t bits
AuthMethods == {"PASSWORD", "FINGERPRINT", "VOICE"}

\* the bitmasks of cfg->auth_methods explored
AuthMethodSets ==
    {{}, {"PASSWORD"}, {"FINGERPRINT", "VOICE"}}

\* the interruption signals deadman_block_signals names; on Windows the
\* console delivers control events instead
PosixSignals == {"SIGINT", "SIGTERM", "SIGQUIT", "SIGTSTP", "SIGHUP"}

WinCtrlEvents == {"CTRL_C_EVENT", "CTRL_BREAK_EVENT", "CTRL_CLOSE_EVENT"}

(***************************************************************************)
(* Pass tables                                                             *)
(***************************************************************************)
GPRand == [is_random |-> TRUE, pattern_len |-> 0, pattern |-> <<0, 0, 0>>]

GP1(a) == [is_random |-> FALSE, pattern_len |-> 1, pattern |-> <<a, 0, 0>>]

\* faulty variant of GP3: the three bytes stored in reverse order
GP3_reversed(a, b, c) ==
    [is_random |-> FALSE, pattern_len |-> 3, pattern |-> <<c, b, a>>]

GP3(a, b, c) == [is_random |-> FALSE, pattern_len |-> 3, pattern |-> <<a, b, c>>]

\* a static aggregate element without initialiser: all members zero
GPZeroInit == [is_random |-> FALSE, pattern_len |-> 0, pattern |-> <<0, 0, 0>>]

\* wipe.c: gutmann_passes[35], entry p is pass p (1-based here, 0-based in C)
gutmann_passes ==
    << GPRand, GPRand, GPRand, GPRand,
       GP1(85), GP1(170), GP3(146, 73, 36), GP3(73, 36, 146), GP3(36, 146, 73),
       GP1(0), GP1(17), GP1(34), GP1(51), GP1(68),
       GP1(85), GP1(102), GP1(119), GP1(136), GP1(153),
       GP1(170), GP1(187), GP1(204), GP1(221), GP1(238),
       GP1(255), GP3(146, 73, 36), GP3(73, 36, 146),
       GP3(36, 146, 73), GP3(109, 182, 219), GP3(182, 219, 109),
       GP3(219, 109, 182),
       GPRand, GPRand, GPRand, GPRand >>

\* macos/secure_wipe.c: gutmann_passes[35]; the initialiser list has 34
\* entries (three GP_RAND at the end), so element 35 is zero-initialised
sw_gutmann_passes ==
    << GPRand, GPRand, GPRand, GPRand,
       GP1(85), GP1(170), GP3(146, 73, 36), GP3(73, 36, 146),
       GP3(36, 146, 73),
       GP1(0), GP1(17), GP1(34), GP1(51), GP1(68),
       GP1(85), GP1(102), GP1(119), GP1(136), GP1(153),
       GP1(170), GP1(187), GP1(204), GP1(221), GP1(238),
       GP1(255), GP3(146, 73, 36), GP3(73, 36, 146),
       GP3(36, 146, 73), GP3(109, 182, 219), GP3(182, 219, 109),
       GP3(219, 109, 182),
       GPRand, GPRand, GPRand, GPZeroInit >>

DodPass(r, b) == [is_random |-> r, byte |-> b]

\* faulty variant of dod_passes: the third random pass left out in favour
\* of a further 0x00 pass
dod_passes_norandom ==
    << DodPass(FALSE, 0), DodPass(FALSE, 255), DodPass(TRUE, 0),
       DodPass(FALSE, 0), DodPass(FALSE, 255), DodPass(TRUE, 0),
       DodPass(FALSE, 0) >>

\* wipe.c: dod_passes[7]
dod_passes ==
    << DodPass(FALSE, 0), DodPass(FALSE, 255), DodPass(TRUE, 0),
       DodPass(FALSE, 0), DodPass(FALSE, 255), DodPass(TRUE, 0),
       DodPass(TRUE, 0) >>

\* macos/secure_wipe.c: dod_passes[7]
sw_dod_passes ==
    << DodPass(FALSE, 0), DodPass(FALSE, 255), DodPass(TRUE, 0),
       DodPass(FALSE, 0), DodPass(FALSE, 255), DodPass(TRUE, 0),
       DodPass(TRUE, 0) >>

\* macos/secure_wipe.c: algorithm_info[].passes behind wipe_algorithm_passes;
\* any value >= ALG_COUNT yields 0
wipe_algorithm_passes(alg) ==
    CASE alg = "ALG_GUTMANN"     -> 35
      [] alg = "ALG_DOD_522022M" -> 7
      [] alg = "ALG_SCHNEIER"    -> 3
      [] alg = "ALG_RANDOM"      -> 1
      [] alg = "ALG_ZERO"        -> 1
      [] OTHER                   -> 0

\* config.c: wipe_algorithm_nwipe_flags[] behind vault_wipe_algorithm_nwipe_flag
vault_wipe_algorithm_nwipe_flag(alg) ==
    CASE alg = "WIPE_GUTMANN"     -> "--method=gutmann"
      [] alg = "WIPE_DOD_522022"  -> "--method=dod522022m"
      [] alg = "WIPE_DOD_SHORT"   -> "--method=dodshort"
      [] alg = "WIPE_RANDOM"      -> "--method=random"
      [] alg = "WIPE_ZERO"        -> "--method=zero"
      [] alg = "WIPE_VERIFY_ONLY" -> "--method=verify"
      [] OTHER                    -> "--method=gutmann"

\* config.c: parse_algorithm_string, on the lower-cased configuration word
parse_algorithm_string(str) ==
    CASE str = "gutmann"    -> "WIPE_GUTMANN"
      [] str = "dod522022m" -> "WIPE_DOD_522022"
      [] str = "dod"        -> "WIPE_DOD_522022"
      [] str = "dodshort"   -> "WIPE_DOD_SHORT"
      [] str = "schneier"   -> "WIPE_DOD_SHORT"
      [] str = "random"     -> "WIPE_RANDOM"
      [] str = "zero"       -> "WIPE_ZERO"
      [] str = "verify"     -> "WIPE_VERIFY_ONLY"
      [] OTHER              -> "WIPE_GUTMANN"

\* the words a configuration file may carry for wipe_algorithm
AlgorithmWords ==
    {"gutmann", "dod522022m", "dod", "dodshort", "schneier", "random", "zero",
     "verify", "other"}

(***************************************************************************)
(* Pass plan of the unified engine (wipe.c, vault_wipe_device_direct)      *)
(***************************************************************************)
\* faulty variant of direct_total_passes: the Gutmann loop stops one pass
\* short
direct_total_passes_short(alg) ==
    CASE alg = "WIPE_GUTMANN"    -> 34
      [] alg = "WIPE_DOD_522022" -> 7
      [] alg = "WIPE_DOD_SHORT"  -> 3
      [] alg = "WIPE_RANDOM"     -> 1
      [] alg = "WIPE_ZERO"       -> 1
      [] OTHER                   -> 0

\* the loop bound / total_passes of each switch case; WIPE_VERIFY_ONLY has
\* no case and falls to default, which runs no pass
direct_total_passes(alg) ==
    CASE alg = "WIPE_GUTMANN"    -> 35
      [] alg = "WIPE_DOD_522022" -> 7
      [] alg = "WIPE_DOD_SHORT"  -> 3
      [] alg = "WIPE_RANDOM"     -> 1
      [] alg = "WIPE_ZERO"       -> 1
      [] OTHER                   -> 0

\* the (is_random, pattern, pattern_len) arguments handed to do_direct_pass
\* and do_direct_verify for pass p (1-based) of alg
direct_pass_args(alg, p) ==
    CASE alg = "WIPE_GUTMANN" ->
           [is_random |-> gutmann_passes[p].is_random,
            pattern_len |-> gutmann_passes[p].pattern_len,
            pattern |-> gutmann_passes[p].pattern]
      [] alg = "WIPE_DOD_522022" ->
           [is_random |-> dod_passes[p].is_random,
            pattern_len |-> 1,
            pattern |-> <<dod_passes[p].byte>>]
      [] alg = "WIPE_ZERO" ->
           [is_random |-> FALSE, pattern_len |-> 1, pattern |-> <<0>>]
      [] OTHER ->
           [is_random |-> TRUE, pattern_len |-> 0, pattern |-> <<>>]

\* faulty variant of direct_verifies: every pass is verified on request
direct_verifies_always(alg, verify, p) == verify

\* whether the switch case of alg verifies pass p after a successful write
direct_verifies(alg, verify, p) ==
    CASE alg = "WIPE_GUTMANN"    -> verify /\ ~gutmann_passes[p].is_random
      [] alg = "WIPE_DOD_522022" -> verify /\ ~dod_passes[p].is_random
      [] alg = "WIPE_ZERO"       -> verify
      [] OTHER                   -> FALSE

\* what a completed write pass leaves on the device: fresh random bytes or
\* the repeated pattern (its first pattern_len bytes)
PassEffect(a) ==
    [is_random |-> a.is_random,
     pattern |-> IF a.is_random THEN <<>>
                 ELSE SubSeq(a.pattern, 1, a.pattern_len)]

(***************************************************************************)
(* Pass plan of the standalone macOS engine (wipe_execute)                 *)
(***************************************************************************)
sw_loop_passes(alg) ==
    CASE alg = "ALG_GUTMANN"     -> 35
      [] alg = "ALG_DOD_522022M" -> 7
      [] alg = "ALG_SCHNEIER"    -> 3
      [] alg = "ALG_RANDOM"      -> 1
      [] alg = "ALG_ZERO"        -> 1
      [] OTHER                   -> 0

sw_pass_args(alg, p) ==
    CASE alg = "ALG_GUTMANN" ->
           [is_random |-> sw_gutmann_passes[p].is_random,
            pattern_len |-> sw_gutmann_passes[p].pattern_len,
            pattern |-> sw_gutmann_passes[p].pattern]
      [] alg = "ALG_DOD_522022M" ->
           [is_random |-> sw_dod_passes[p].is_random,
            pattern_len |-> 1,
            pattern |-> <<sw_dod_passes[p].byte>>]
      [] alg = "ALG_ZERO" ->
           [is_random |-> FALSE, pattern_len |-> 1, pattern |-> <<0>>]
      [] OTHER ->
           [is_random |-> TRUE, pattern_len |-> 0, pattern |-> <<>>]

\* whether wipe_execute attempts a verify after pass p: deterministic
\* passes of Gutmann and DoD, every Schneier pass, the Zero pass; never the
\* single Random pass
sw_verifies(alg, verify, p) ==
    CASE alg = "ALG_GUTMANN"     -> verify /\ ~sw_gutmann_passes[p].is_random
      [] alg = "ALG_DOD_522022M" -> verify /\ ~sw_dod_passes[p].is_random
      [] alg = "ALG_SCHNEIER"    -> verify
      [] alg = "ALG_ZERO"        -> verify
      [] OTHER                   -> FALSE

(***************************************************************************)
(* State                                                                   *)
(***************************************************************************)
VARIABLES
    prog,         \* which program this behaviour runs
    platform,     \* build target (VAULT_PLATFORM_*)
    luksAvail,    \* HAVE_LIBCRYPTSETUP: what vault_luks_available() returns
    cfg,          \* vault_config_t fields the gate reads and writes
    pc,           \* position of the single thread of control
    authResult,   \* value returned by vault_auth_run ("none" before)
    authHist,     \* history of the authentication loop
    sigmask,      \* POSIX: blocked signals (sigprocmask)
    sigign,       \* signals / console events set to be ignored
    sigHist,      \* history of signal delivery during the dead-man sequence
    steps,        \* dead-man steps entered, in order
    finished,     \* dead-man steps finished, in order
    calls,        \* number of invocations of the functions of interest
    wipeArgs,     \* arguments of the vault_wipe_device call
    fallbackArgs, \* arguments of the fallback vault_wipe_device_direct call
    wipe_result,  \* deadman.c local wipe_result
    formatResult, \* outcome of the pre-encryption step
    eng,          \* frame of the running wipe engine
    passLog,      \* write passes completed by the current engine invocation
    overwrites,   \* complete overwrite passes of the device, whole run
    envHist,      \* which kinds of environment failure have happened
    res,          \* wipe_result_t of the standalone engine
    io,           \* frame of one write pass and its verify pass, by chunk
    probe,        \* frame of a drive-type probe
    cli,          \* the standalone wiper's main: arguments and exit
    keys,         \* buffers that hold key material or a passphrase
    svc,          \* the Windows wipe service: its threads and status
    cp            \* the Windows credential provider's credential object

vars ==
    << prog, platform, luksAvail, cfg, pc, authResult, authHist, sigmask,
       sigign, sigHist, steps, finished, calls, wipeArgs, fallbackArgs,
       wipe_result, formatResult, eng, passLog, overwrites, envHist, res,
       io, probe, cli, keys, svc, cp >>

buildVars == << prog, platform, luksAvail >>

authVars == << authResult, authHist >>

sigVars == << sigmask, sigign, sigHist >>

dmVars ==
    << steps, finished, wipeArgs, fallbackArgs, wipe_result, formatResult >>

engVars == << eng, passLog, overwrites, envHist, res >>

\* the components modelled on their own
unitVars == << probe, cli, keys, svc, cp >>

\* what no action of the gate or of a wipe engine writes
fixedVars == << buildVars, io, unitVars >>

\* the dead-man states of deadman.c, in source order
StepOrder ==
    << "block", "warn", "cleanup", "encrypt", "wipe", "sync", "poweroff" >>

NoArgs == [set |-> FALSE, algorithm |-> "none", verify |-> FALSE]

\* no engine call is running.  Besides the arguments, the pass index p and
\* ret, the frame records what the call has done: size determined, write
\* passes started, device written to, the last pass whose verify function
\* was invoked and the last whose verify was skipped for want of a handle,
\* write handles opened and closed, read-only handles now open, buffers
\* allocated and freed
IdleEng ==
    [caller |-> "none", alg |-> "none", verify |-> FALSE, p |-> 0, ret |-> 0,
     sized |-> FALSE, started |-> 0, dirty |-> FALSE, vlast |-> 0,
     vskip |-> 0,
     wOpens |-> 0, wCloses |-> 0, vHandles |-> 0, allocs |-> 0, frees |-> 0]

\* no failure of the environment so far, no external tool run, no engine
\* call returned
CalmEnv ==
    [io |-> FALSE, resource |-> FALSE, abort |-> FALSE, tool |-> "none",
     lastRet |-> "none"]

ZeroCalls ==
    [trigger |-> 0, format |-> 0, wipe_device |-> 0, direct |-> 0,
     fallback |-> 0, nwipe |-> 0, shutdown |-> 0]

ZeroRes ==
    [passes_completed |-> 0, total_passes |-> 0, verification_failures |-> 0,
     completed |-> FALSE, returned |-> "none", error |-> "none"]

\* no pass function is running
IdleIo ==
    [engine |-> "none", N |-> 0, B |-> 0, a |-> GPRand, cb |-> FALSE,
     off |-> 0, calls |-> 0, intr |-> 0, chunks |-> << >>, events |-> 0,
     errSeen |-> FALSE, afterErr |-> 0, abortAt |-> -1, afterAbort |-> 0,
     status |-> "none", why |-> "none",
     verify |-> FALSE, corrupt |-> -1, voff |-> 0, reads |-> 0,
     vstatus |-> "none", vwhy |-> "none", reported |-> -1, next |-> "none"]

\* the components at rest: no probe running, main of the standalone wiper
\* not entered, no function owning a sensitive buffer running, no service
\* process, no credential object
Idle ==
    [probe |-> [fn |-> "none"], cli |-> [entered |-> FALSE],
     keys |-> [fn |-> "none"], svc |-> [main |-> "none"],
     cp |-> [at |-> "none"]]

IdleUnits ==
    /\ probe = Idle.probe
    /\ cli = Idle.cli
    /\ keys = Idle.keys
    /\ svc = Idle.svc
    /\ cp = Idle.cp

\* signals already ignored when the authentication loop starts:
\* vault_tui_init of the ncurses / vt100 / win32 backend
TuiInitIgnored(pf) ==
    IF pf = "windows" THEN {"CTRL_C_EVENT"}
    ELSE {"SIGINT", "SIGTSTP", "SIGQUIT"}

\* vault_config_init followed by vault_config_load / parse_kernel_cmdline:
\* the libconfig backend stores max_attempts unclamped
InitVault ==
    /\ prog = "vault"
    /\ platform \in Platforms
    /\ luksAvail \in BOOLEAN
    /\ luksAvail => platform = "linux"
    /\ \E ma \in 0 .. MaxAttempts, am \in AuthMethodSets,
          w \in AlgorithmWords, e \in BOOLEAN, v \in BOOLEAN :
         cfg = [max_attempts |-> ma, current_attempts |-> 0,
                auth_methods |-> am,
                wipe_algorithm |-> parse_algorithm_string(w),
                encrypt_before_wipe |-> e, verify_passes |-> v]
    /\ pc = "auth_loop"
    /\ sigign = TuiInitIgnored(platform)
    /\ eng = IdleEng

\* the standalone wiper entering wipe_execute with a parsed configuration
InitSecureWipe ==
    /\ prog = "secure_wipe"
    /\ platform = "macos"
    /\ luksAvail = FALSE
    /\ cfg = [max_attempts |-> 0, current_attempts |-> 0, auth_methods |-> {},
              wipe_algorithm |-> "none", encrypt_before_wipe |-> FALSE,
              verify_passes |-> FALSE]
    /\ pc = "sw_size"
    /\ sigign = {}
    /\ \E a \in SwAlgorithms, v \in BOOLEAN :
         eng = [IdleEng EXCEPT !.caller = "cli", !.alg = a, !.verify = v]

Init ==
    /\ InitVault \/ InitSecureWipe
    /\ authResult = "none"
    /\ authHist = [presented |-> 0, verifiedOk |-> FALSE]
    /\ sigmask = {}
    /\ sigHist = [killed |-> FALSE]
    /\ steps = << >>
    /\ finished = << >>
    /\ calls = ZeroCalls
    /\ wipeArgs = NoArgs
    /\ fallbackArgs = NoArgs
    /\ wipe_result = 0
    /\ formatResult = "not_invoked"
    /\ passLog = << >>
    /\ overwrites = 0
    /\ envHist = CalmEnv
    /\ res = ZeroRes
    /\ io = IdleIo
    /\ IdleUnits

(***************************************************************************)
(* auth.c: vault_auth_run, one action per kind of loop iteration           *)
(***************************************************************************)
AuthResults == {"AUTH_SUCCESS", "AUTH_FAILURE", "AUTH_ERROR"}

InLoop ==
    /\ prog = "vault"
    /\ pc = "auth_loop"
    /\ cfg.current_attempts < cfg.max_attempts

\* the bookkeeping of an iteration that did not authenticate
FailedAttempt(shown) ==
    /\ cfg' = [cfg EXCEPT !.current_attempts = @ + 1]
    /\ authHist' = [authHist EXCEPT
                       !.presented = @ + (IF shown THEN 1 ELSE 0)]
    /\ UNCHANGED << pc, authResult >>

Authenticated ==
    /\ authResult' = "AUTH_SUCCESS"
    /\ authHist' = [authHist EXCEPT !.presented = @ + 1, !.verifiedOk = TRUE]
    /\ pc' = "main_auth_ret"
    /\ UNCHANGED cfg

\* password branch: login screen, then vault_auth_password_verify
AuthPassword ==
    /\ InLoop
    /\ "PASSWORD" \in cfg.auth_methods
    /\ \E entered \in BOOLEAN, result \in AuthResults :
         IF ~entered THEN FailedAttempt(TRUE)
         ELSE IF result = "AUTH_SUCCESS" THEN Authenticated
         ELSE FailedAttempt(TRUE)
    /\ UNCHANGED << fixedVars, sigVars, dmVars, engVars, calls >>

\* fingerprint branch (HAVE_FINGERPRINT and reader present)
AuthFingerprint ==
    /\ InLoop
    /\ "PASSWORD" \notin cfg.auth_methods
    /\ "FINGERPRINT" \in cfg.auth_methods
    /\ \E result \in AuthResults :
         IF result = "AUTH_SUCCESS" THEN Authenticated
         ELSE FailedAttempt(TRUE)
    /\ UNCHANGED << fixedVars, sigVars, dmVars, engVars, calls >>

\* voice branch (HAVE_VOICE and microphone present); reached when the
\* fingerprint branch is absent or its reader is not available
AuthVoice ==
    /\ InLoop
    /\ "PASSWORD" \notin cfg.auth_methods
    /\ "VOICE" \in cfg.auth_methods
    /\ \E result \in AuthResults :
         IF result = "AUTH_SUCCESS" THEN Authenticated
         ELSE FailedAttempt(TRUE)
    /\ UNCHANGED << fixedVars, sigVars, dmVars, engVars, calls >>

\* no configured method is available: the attempt is counted unseen
AuthNoMethod ==
    /\ InLoop
    /\ "PASSWORD" \notin cfg.auth_methods
    /\ FailedAttempt(FALSE)
    /\ UNCHANGED << fixedVars, sigVars, dmVars, engVars, calls >>

\* loop exit: "Threshold exceeded", return AUTH_FAILURE
AuthThreshold ==
    /\ prog = "vault"
    /\ pc = "auth_loop"
    /\ ~(cfg.current_attempts < cfg.max_attempts)
    /\ authResult' = "AUTH_FAILURE"
    /\ pc' = "main_auth_ret"
    /\ UNCHANGED << fixedVars, cfg, authHist, sigVars, dmVars, engVars, calls >>

(***************************************************************************)
(* main.c: the two branches after vault_auth_run                           *)
(***************************************************************************)
\* success branch: unlock / success screen, then exit or shut down
MainSuccess ==
    /\ prog = "vault"
    /\ pc = "main_auth_ret"
    /\ authResult = "AUTH_SUCCESS"
    /\ pc' = "exited"
    /\ UNCHANGED << fixedVars, cfg, authVars, sigVars, dmVars, engVars, calls >>

\* faulty variant of MainTrigger: the trigger is called whatever
\* vault_auth_run returned
MainTrigger_unguarded ==
    /\ prog = "vault"
    /\ pc = "main_auth_ret"
    /\ calls' = [calls EXCEPT !.trigger = @ + 1]
    /\ pc' = "dm_block"
    /\ UNCHANGED << fixedVars, cfg, authVars, sigVars, dmVars, engVars >>

\* else branch: vault_deadman_trigger(&cfg)
MainTrigger ==
    /\ prog = "vault"
    /\ pc = "main_auth_ret"
    /\ authResult # "AUTH_SUCCESS"
    /\ calls' = [calls EXCEPT !.trigger = @ + 1]
    /\ pc' = "dm_block"
    /\ UNCHANGED << fixedVars, cfg, authVars, sigVars, dmVars, engVars >>

\* vault_deadman_trigger returned -1: vault_tui_shutdown, return 1
MainAfterTrigger ==
    /\ prog = "vault"
    /\ pc = "dm_return"
    /\ pc' = "exited"
    /\ UNCHANGED << fixedVars, cfg, authVars, sigVars, dmVars, engVars, calls >>

(***************************************************************************)
(* deadman.c: vault_deadman_trigger, one action per statement group        *)
(***************************************************************************)
Enter(step) == steps' = Append(steps, step)

Finish(step) == finished' = Append(finished, step)

\* deadman_block_signals: POSIX blocks every signal and ignores five of
\* them; Windows only disables the Ctrl+C handler
DmBlockSignals ==
    /\ prog = "vault"
    /\ pc = "dm_block"
    /\ IF platform = "windows"
       THEN /\ sigign' = sigign \cup {"CTRL_C_EVENT"}
            /\ UNCHANGED sigmask
       ELSE /\ sigmask' = PosixSignals
            /\ sigign' = sigign \cup PosixSignals
    /\ Enter("block") /\ Finish("block")
    /\ pc' = "dm_warn"
    /\ UNCHANGED << fixedVars, cfg, authVars, sigHist, wipeArgs, fallbackArgs,
                    wipe_result, formatResult, engVars, calls >>

\* vault_tui_deadman_warning(DEADMAN_COUNTDOWN_SECONDS): sleeps, reads no key
DmWarning ==
    /\ prog = "vault"
    /\ pc = "dm_warn"
    /\ Enter("warn") /\ Finish("warn")
    /\ pc' = "dm_cleanup"
    /\ UNCHANGED << fixedVars, cfg, authVars, sigVars, wipeArgs, fallbackArgs,
                    wipe_result, formatResult, engVars, calls >>

\* deadman_pre_wipe_cleanup: best effort, results ignored
DmCleanup ==
    /\ prog = "vault"
    /\ pc = "dm_cleanup"
    /\ Enter("cleanup") /\ Finish("cleanup")
    /\ pc' = "dm_encrypt"
    /\ UNCHANGED << fixedVars, cfg, authVars, sigVars, wipeArgs, fallbackArgs,
                    wipe_result, formatResult, engVars, calls >>

\* faulty variant of DmEncrypt: vault_luks_available() is not consulted
DmEncrypt_nocheck ==
    /\ prog = "vault"
    /\ pc = "dm_encrypt"
    /\ IF cfg.encrypt_before_wipe
       THEN /\ calls' = [calls EXCEPT !.format = @ + 1]
            /\ \E ok \in BOOLEAN :
                 formatResult' = IF ok THEN "ok" ELSE "failed"
       ELSE UNCHANGED << calls, formatResult >>
    /\ Enter("encrypt") /\ Finish("encrypt")
    /\ pc' = "dm_wipe"
    /\ UNCHANGED << fixedVars, cfg, authVars, sigVars, wipeArgs, fallbackArgs,
                    wipe_result, engVars >>

\* step 3: vault_luks_format_random_key when the policy is set and LUKS is
\* available; its result only selects a status message
DmEncrypt ==
    /\ prog = "vault"
    /\ pc = "dm_encrypt"
    /\ IF cfg.encrypt_before_wipe /\ luksAvail
       THEN /\ calls' = [calls EXCEPT !.format = @ + 1]
            /\ \E ok \in BOOLEAN :
                 formatResult' = IF ok THEN "ok" ELSE "failed"
       ELSE UNCHANGED << calls, formatResult >>
    /\ Enter("encrypt") /\ Finish("encrypt")
    /\ pc' = "dm_wipe"
    /\ UNCHANGED << fixedVars, cfg, authVars, sigVars, wipeArgs, fallbackArgs,
                    wipe_result, engVars >>

\* step 4: the call vault_wipe_device(target, cfg->wipe_algorithm,
\* cfg->verify_passes)
DmWipe ==
    /\ prog = "vault"
    /\ pc = "dm_wipe"
    /\ Enter("wipe")
    /\ calls' = [calls EXCEPT !.wipe_device = @ + 1]
    /\ wipeArgs' = [set |-> TRUE, algorithm |-> cfg.wipe_algorithm,
                    verify |-> cfg.verify_passes]
    /\ pc' = "wd_entry"
    /\ UNCHANGED << fixedVars, cfg, authVars, sigVars, finished, fallbackArgs,
                    wipe_result, formatResult, engVars >>

\* a call of vault_wipe_device_direct(device, alg, verify, NULL)
CallDirect(caller, alg, verify) ==
    /\ eng' = [IdleEng EXCEPT !.caller = caller, !.alg = alg,
                              !.verify = verify]
    /\ passLog' = << >>
    /\ pc' = "eng_size"

\* faulty variant of DmWipeRet: a failed primary wipe is retried by calling
\* vault_wipe_device again instead of the fallback
DmWipeRet_retry ==
    /\ prog = "vault"
    /\ pc = "dm_wipe_ret"
    /\ IF wipe_result # 0
       THEN /\ pc' = "dm_wipe"
            /\ UNCHANGED finished
       ELSE /\ Finish("wipe")
            /\ pc' = "dm_sync"
    /\ UNCHANGED << fixedVars, cfg, authVars, sigVars, steps, wipeArgs,
                    fallbackArgs, wipe_result, formatResult, engVars, calls >>

\* faulty variant of DmWipeRet: the fallback reuses the configured algorithm
\* and verify flag
DmWipeRet_cfgargs ==
    /\ prog = "vault"
    /\ pc = "dm_wipe_ret"
    /\ IF wipe_result # 0
       THEN /\ calls' = [calls EXCEPT !.fallback = @ + 1, !.direct = @ + 1]
            /\ fallbackArgs' = [set |-> TRUE, algorithm |-> cfg.wipe_algorithm,
                                verify |-> cfg.verify_passes]
            /\ CallDirect("fallback", cfg.wipe_algorithm, cfg.verify_passes)
            /\ UNCHANGED finished
       ELSE /\ Finish("wipe")
            /\ pc' = "dm_sync"
            /\ UNCHANGED << calls, fallbackArgs, eng, passLog >>
    /\ UNCHANGED << fixedVars, cfg, authVars, sigVars, steps, wipeArgs,
                    wipe_result, formatResult, overwrites, envHist, res >>

\* if (wipe_result != 0) fallback: vault_wipe_device_direct(target,
\* WIPE_RANDOM, 0, NULL); otherwise on to step 5
DmWipeRet ==
    /\ prog = "vault"
    /\ pc = "dm_wipe_ret"
    /\ IF wipe_result # 0
       THEN /\ calls' = [calls EXCEPT !.fallback = @ + 1, !.direct = @ + 1]
            /\ fallbackArgs' = [set |-> TRUE, algorithm |-> "WIPE_RANDOM",
                                verify |-> FALSE]
            /\ CallDirect("fallback", "WIPE_RANDOM", FALSE)
            /\ UNCHANGED finished
       ELSE /\ Finish("wipe")
            /\ pc' = "dm_sync"
            /\ UNCHANGED << calls, fallbackArgs, eng, passLog >>
    /\ UNCHANGED << fixedVars, cfg, authVars, sigVars, steps, wipeArgs,
                    wipe_result, formatResult, overwrites, envHist, res >>

\* step 5: deadman_sync
DmSync ==
    /\ prog = "vault"
    /\ pc = "dm_sync"
    /\ Enter("sync") /\ Finish("sync")
    /\ pc' = "dm_poweroff"
    /\ UNCHANGED << fixedVars, cfg, authVars, sigVars, wipeArgs, fallbackArgs,
                    wipe_result, formatResult, engVars, calls >>

\* step 6: status, sleep, vault_tui_shutdown, vault_platform_shutdown; the
\* machine goes down, or the call returns and the function returns -1
DmPowerOff ==
    /\ prog = "vault"
    /\ pc = "dm_poweroff"
    /\ Enter("poweroff") /\ Finish("poweroff")
    /\ calls' = [calls EXCEPT !.shutdown = @ + 1]
    /\ \E halted \in BOOLEAN :
         pc' = IF halted THEN "powered_off" ELSE "dm_return"
    /\ UNCHANGED << fixedVars, cfg, authVars, sigVars, wipeArgs, fallbackArgs,
                    wipe_result, formatResult, engVars >>

(***************************************************************************)
(* wipe.c: vault_wipe_device                                               *)
(***************************************************************************)
\* the external tool overwrites the device under every method but the
\* verify-only one
NwipeOverwrites(flag) == flag # "--method=verify"

\* entry: on Linux try nwipe unless it is not installed; elsewhere (and
\* when it is missing) call the direct engine with the same arguments
WdEntry ==
    /\ prog = "vault"
    /\ pc = "wd_entry"
    /\ \E nwipe_available \in BOOLEAN :
         IF platform = "linux" /\ nwipe_available
         THEN /\ pc' = "wd_fork"
              /\ UNCHANGED << calls, eng, passLog, envHist >>
         ELSE /\ calls' = [calls EXCEPT !.direct = @ + 1]
              /\ CallDirect("wipe_device", wipeArgs.algorithm, wipeArgs.verify)
              /\ envHist' = [envHist EXCEPT
                                !.tool = IF platform = "linux" THEN "absent"
                                         ELSE @]
    /\ UNCHANGED << fixedVars, cfg, authVars, sigVars, dmVars, overwrites,
                    res >>

\* fork(): failure returns -1 at once
WdFork ==
    /\ prog = "vault"
    /\ pc = "wd_fork"
    /\ \E forked \in BOOLEAN :
         IF forked
         THEN /\ calls' = [calls EXCEPT !.nwipe = @ + 1]
              /\ pc' = "wd_wait"
              /\ UNCHANGED << wipe_result, envHist >>
         ELSE /\ wipe_result' = -1
              /\ pc' = "dm_wipe_ret"
              /\ envHist' = [envHist EXCEPT !.tool = "fork_failed"]
              /\ UNCHANGED calls
    /\ UNCHANGED << fixedVars, cfg, authVars, sigVars, steps, finished,
                    wipeArgs, fallbackArgs, formatResult, eng, passLog,
                    overwrites, res >>

\* waitpid(): failure returns -1; exit status 0 returns 0; anything else
\* (non-zero exit, exec failure 127, death by signal) retries with the
\* direct engine
WdWait ==
    /\ prog = "vault"
    /\ pc = "wd_wait"
    /\ \E outcome \in {"wait_failed", "exit_0", "exit_nonzero", "signaled"} :
         CASE outcome = "wait_failed" ->
                /\ wipe_result' = -1
                /\ pc' = "dm_wipe_ret"
                /\ envHist' = [envHist EXCEPT !.tool = "wait_failed"]
                /\ UNCHANGED << calls, eng, passLog, overwrites >>
           [] outcome = "exit_0" ->
                /\ wipe_result' = 0
                /\ pc' = "dm_wipe_ret"
                /\ overwrites' =
                     IF NwipeOverwrites(
                          vault_wipe_algorithm_nwipe_flag(wipeArgs.algorithm))
                     THEN overwrites + 1 ELSE overwrites
                /\ envHist' = [envHist EXCEPT !.tool = "exit_0"]
                /\ UNCHANGED << calls, eng, passLog >>
           [] OTHER ->
                /\ calls' = [calls EXCEPT !.direct = @ + 1]
                /\ CallDirect("wipe_device", wipeArgs.algorithm,
                              wipeArgs.verify)
                /\ envHist' = [envHist EXCEPT !.tool = "failed"]
                /\ UNCHANGED << wipe_result, overwrites >>
    /\ UNCHANGED << fixedVars, cfg, authVars, sigVars, steps, finished,
                    wipeArgs, fallbackArgs, formatResult, res >>

(***************************************************************************)
(* wipe.c: vault_wipe_device_direct                                        *)
(***************************************************************************)
InDirect(at) == prog = "vault" /\ pc = at

IoFailure == envHist' = [envHist EXCEPT !.io = TRUE]

ResourceFailure == envHist' = [envHist EXCEPT !.resource = TRUE]

\* the algorithms vault_wipe_device_direct has a switch case for
DirectCases ==
    {"WIPE_GUTMANN", "WIPE_DOD_522022", "WIPE_DOD_SHORT", "WIPE_RANDOM",
     "WIPE_ZERO"}

\* vault_wipe_get_device_size: 0 means failure, return -1
EngSize ==
    /\ InDirect("eng_size")
    /\ \E sized \in BOOLEAN :
         IF sized
         THEN /\ pc' = "eng_open"
              /\ eng' = [eng EXCEPT !.sized = TRUE]
              /\ UNCHANGED envHist
         ELSE /\ eng' = [eng EXCEPT !.ret = -1]
              /\ pc' = "eng_ret"
              /\ IoFailure
    /\ UNCHANGED << fixedVars, cfg, authVars, sigVars, dmVars, calls, passLog,
                    overwrites, res >>

\* faulty variant of EngOpen: the handle is not checked
EngOpen_unchecked ==
    /\ InDirect("eng_open")
    /\ \E opened \in BOOLEAN :
         /\ pc' = "eng_alloc"
         /\ eng' = [eng EXCEPT !.wOpens = @ + (IF opened THEN 1 ELSE 0)]
         /\ IF opened THEN UNCHANGED envHist ELSE IoFailure
    /\ UNCHANGED << fixedVars, cfg, authVars, sigVars, dmVars, calls, passLog,
                    overwrites, res >>

\* disk_open_write: INVALID_DISK_HANDLE means failure, return -1
EngOpen ==
    /\ InDirect("eng_open")
    /\ \E opened \in BOOLEAN :
         IF opened
         THEN /\ pc' = "eng_alloc"
              /\ eng' = [eng EXCEPT !.wOpens = @ + 1]
              /\ UNCHANGED envHist
         ELSE /\ eng' = [eng EXCEPT !.ret = -1]
              /\ pc' = "eng_ret"
              /\ IoFailure
    /\ UNCHANGED << fixedVars, cfg, authVars, sigVars, dmVars, calls, passLog,
                    overwrites, res >>

\* write_buf is always allocated, verify_buf only when verify is set
BuffersWanted(verify) == IF verify THEN 2 ELSE 1

\* malloc of write_buf / verify_buf; when one is missing the other is
\* freed, the handle closed and -1 returned; otherwise the switch on
\* algorithm, whose default branch sets ret = -1
EngAlloc ==
    /\ InDirect("eng_alloc")
    /\ \E got \in 0 .. BuffersWanted(eng.verify) :
         IF got = BuffersWanted(eng.verify)
         THEN /\ eng' = [eng EXCEPT
                           !.p = 1,
                           !.ret = IF eng.alg \in DirectCases THEN 0 ELSE -1,
                           !.allocs = got]
              /\ pc' = "eng_pass"
              /\ UNCHANGED envHist
         ELSE /\ eng' = [eng EXCEPT !.ret = -1, !.allocs = got,
                                    !.frees = got, !.wCloses = @ + 1]
              /\ pc' = "eng_ret"
              /\ ResourceFailure
    /\ UNCHANGED << fixedVars, cfg, authVars, sigVars, dmVars, calls, passLog,
                    overwrites, res >>

\* the loop condition of the running switch case
DirectLoopOn == eng.ret = 0 /\ eng.p <= direct_total_passes(eng.alg)

\* do_direct_pass for pass eng.p: pattern sanity check, seek, the chunk
\* loop (random fill or pattern fill, write), sync
EngWrite ==
    /\ InDirect("eng_pass")
    /\ DirectLoopOn
    /\ LET a == direct_pass_args(eng.alg, eng.p) IN
         IF ~a.is_random /\ a.pattern_len = 0
         THEN /\ eng' = [eng EXCEPT !.ret = -1, !.started = @ + 1]
              /\ UNCHANGED << pc, passLog, overwrites, envHist >>
         ELSE \E outcome \in {"ok", "seek_failed", "write_failed",
                              "random_failed"} :
                /\ outcome = "random_failed" => a.is_random
                /\ IF outcome = "ok"
                   THEN /\ passLog' = Append(passLog, PassEffect(a))
                        /\ overwrites' = overwrites + 1
                        /\ IF direct_verifies(eng.alg, eng.verify, eng.p)
                           THEN /\ pc' = "eng_verify"
                                /\ eng' = [eng EXCEPT !.started = @ + 1,
                                                      !.dirty = TRUE]
                           ELSE /\ eng' = [eng EXCEPT !.started = @ + 1,
                                                      !.dirty = TRUE,
                                                      !.p = @ + 1]
                                /\ UNCHANGED pc
                        /\ UNCHANGED envHist
                   ELSE /\ eng' = [eng EXCEPT
                                     !.ret = -1,
                                     !.started = @ + 1,
                                     !.dirty = @ \/ outcome # "seek_failed"]
                        /\ IF outcome = "random_failed"
                           THEN ResourceFailure ELSE IoFailure
                        /\ UNCHANGED << pc, passLog, overwrites >>
    /\ UNCHANGED << fixedVars, cfg, authVars, sigVars, dmVars, calls, res >>

\* do_direct_verify for pass eng.p: pattern sanity check, read-only open,
\* read and compare loop, close
EngVerify ==
    /\ InDirect("eng_verify")
    /\ LET a == direct_pass_args(eng.alg, eng.p) IN
         IF ~a.is_random /\ a.pattern_len = 0
         THEN /\ eng' = [eng EXCEPT !.ret = -1, !.vlast = eng.p]
              /\ UNCHANGED envHist
         ELSE \E outcome \in {"ok", "open_failed", "read_failed", "mismatch"} :
                LET opened == IF outcome = "open_failed" THEN 0 ELSE 1
                    closed == opened
                    called == [eng EXCEPT !.vlast = eng.p,
                                          !.vHandles = @ + opened - closed]
                IN  IF outcome = "ok"
                    THEN /\ eng' = [called EXCEPT !.p = @ + 1]
                         /\ UNCHANGED envHist
                    ELSE /\ eng' = [called EXCEPT !.ret = -1]
                         /\ IoFailure
    /\ pc' = "eng_pass"
    /\ UNCHANGED << fixedVars, cfg, authVars, sigVars, dmVars, calls, passLog,
                    overwrites, res >>

\* faulty variant of EngCleanup: verify_buf is not freed
EngCleanup_leak ==
    /\ InDirect("eng_pass")
    /\ ~DirectLoopOn
    /\ eng' = [eng EXCEPT !.frees = @ + 1, !.wCloses = @ + 1]
    /\ pc' = "eng_ret"
    /\ UNCHANGED << fixedVars, cfg, authVars, sigVars, dmVars, calls,
                    passLog, overwrites, envHist, res >>

\* after the switch: free(write_buf), free(verify_buf), disk_close(fd)
EngCleanup ==
    /\ InDirect("eng_pass")
    /\ ~DirectLoopOn
    /\ eng' = [eng EXCEPT !.frees = @ + eng.allocs, !.wCloses = @ + 1]
    /\ pc' = "eng_ret"
    /\ UNCHANGED << fixedVars, cfg, authVars, sigVars, dmVars, calls,
                    passLog, overwrites, envHist, res >>

\* faulty variant of EngReturn: a failed fallback makes the dead-man
\* sequence return to main at once
EngReturn_giveup ==
    /\ InDirect("eng_ret")
    /\ IF eng.caller = "wipe_device"
       THEN /\ wipe_result' = eng.ret
            /\ pc' = "dm_wipe_ret"
            /\ UNCHANGED finished
       ELSE /\ Finish("wipe")
            /\ pc' = IF eng.ret # 0 THEN "dm_return" ELSE "dm_sync"
            /\ UNCHANGED wipe_result
    /\ eng' = IdleEng
    /\ envHist' = [envHist EXCEPT !.lastRet = eng.ret]
    /\ UNCHANGED << fixedVars, cfg, authVars, sigVars, steps, wipeArgs,
                    fallbackArgs, formatResult, calls, passLog, overwrites,
                    res >>

\* return ret: to vault_wipe_device, which returns it to the dead-man
\* sequence as wipe_result, or to the fallback call, which discards it
EngReturn ==
    /\ InDirect("eng_ret")
    /\ IF eng.caller = "wipe_device"
       THEN /\ wipe_result' = eng.ret
            /\ pc' = "dm_wipe_ret"
            /\ UNCHANGED finished
       ELSE /\ Finish("wipe")
            /\ pc' = "dm_sync"
            /\ UNCHANGED wipe_result
    /\ eng' = IdleEng
    /\ envHist' = [envHist EXCEPT !.lastRet = eng.ret]
    /\ UNCHANGED << fixedVars, cfg, authVars, sigVars, steps, wipeArgs,
                    fallbackArgs, formatResult, calls, passLog, overwrites,
                    res >>

(***************************************************************************)
(* macos/secure_wipe.c: wipe_execute                                       *)
(***************************************************************************)
InSw(at) == prog = "secure_wipe" /\ pc = at

\* an early return -1 from frame f, with error_msg set
SwFail(f, msg) ==
    /\ eng' = [f EXCEPT !.ret = -1]
    /\ res' = [res EXCEPT !.returned = "-1", !.error = msg]
    /\ pc' = "sw_done"

\* memset(result), total_passes, drive type, raw path, wipe_get_disk_size
SwSize ==
    /\ InSw("sw_size")
    /\ \E sized \in BOOLEAN :
         /\ res' = [ZeroRes EXCEPT
                      !.total_passes = wipe_algorithm_passes(eng.alg),
                      !.returned = IF sized THEN "none" ELSE "-1",
                      !.error = IF sized THEN "none" ELSE "size"]
         /\ IF sized
            THEN /\ pc' = "sw_open"
                 /\ eng' = [eng EXCEPT !.sized = TRUE]
                 /\ UNCHANGED envHist
            ELSE /\ eng' = [eng EXCEPT !.ret = -1]
                 /\ pc' = "sw_done"
                 /\ IoFailure
    /\ UNCHANGED << fixedVars, cfg, authVars, sigVars, dmVars, calls, passLog,
                    overwrites >>

\* open(raw_path, O_WRONLY | O_SYNC)
SwOpen ==
    /\ InSw("sw_open")
    /\ \E opened \in BOOLEAN :
         IF opened
         THEN /\ pc' = "sw_alloc"
              /\ eng' = [eng EXCEPT !.wOpens = @ + 1]
              /\ UNCHANGED << envHist, res >>
         ELSE SwFail(eng, "open") /\ IoFailure
    /\ UNCHANGED << fixedVars, cfg, authVars, sigVars, dmVars, calls, passLog,
                    overwrites >>

\* malloc of write_buf and, with verify, verify_buf; when one is missing
\* the other is freed, the handle closed and -1 returned; otherwise the
\* switch on config->algorithm
SwAlloc ==
    /\ InSw("sw_alloc")
    /\ \E got \in 0 .. BuffersWanted(eng.verify) :
         IF got = BuffersWanted(eng.verify)
         THEN /\ eng' = [eng EXCEPT
                           !.p = 1,
                           !.ret = IF eng.alg \in SwAlgorithms THEN 0 ELSE -1,
                           !.allocs = got]
              /\ pc' = "sw_pass"
              /\ UNCHANGED << envHist, res >>
         ELSE /\ SwFail([eng EXCEPT !.allocs = got, !.frees = got,
                                    !.wCloses = @ + 1], "alloc")
              /\ ResourceFailure
    /\ UNCHANGED << fixedVars, cfg, authVars, sigVars, dmVars, calls, passLog,
                    overwrites >>

SwLoopOn == eng.ret = 0 /\ eng.p <= sw_loop_passes(eng.alg)

\* fill_pattern with pattern_len = 0 evaluates i % 0: undefined behaviour
FillPatternUndefined(a) == ~a.is_random /\ a.pattern_len = 0

\* the progress callback can return non-zero; cli_progress, the callback
\* main passes, always returns 0
CallbackMayStop == eng.caller # "main"

\* the progress callback asked to stop
UserAbort == envHist' = [envHist EXCEPT !.abort = TRUE]

\* do_write_pass for pass eng.p, then passes_completed++ on success.  With
\* an undefined fill the build either traps (the process dies) or writes
\* whatever the buffer then holds.  The progress callback may end the pass
\* after any chunk
SwWrite ==
    /\ InSw("sw_pass")
    /\ SwLoopOn
    /\ LET a == sw_pass_args(eng.alg, eng.p)
           begun == [eng EXCEPT !.started = @ + 1]
       IN
         \E outcome \in {"ok", "seek_failed", "write_failed", "short_write",
                         "random_failed", "aborted", "trap"} :
           /\ outcome = "random_failed" => a.is_random
           /\ outcome = "trap" => FillPatternUndefined(a)
           /\ outcome = "aborted" => CallbackMayStop
           /\ CASE outcome = "ok" ->
                     /\ passLog' = Append(passLog, PassEffect(a))
                     /\ overwrites' = overwrites + 1
                     /\ res' = [res EXCEPT !.passes_completed = @ + 1]
                     /\ IF sw_verifies(eng.alg, eng.verify, eng.p)
                        THEN /\ pc' = "sw_verify"
                             /\ eng' = [begun EXCEPT !.dirty = TRUE]
                        ELSE /\ eng' = [begun EXCEPT !.dirty = TRUE,
                                                     !.p = @ + 1]
                             /\ UNCHANGED pc
                     /\ UNCHANGED envHist
                [] outcome = "trap" ->
                     /\ pc' = "crashed"
                     /\ eng' = begun
                     /\ UNCHANGED << passLog, overwrites, res, envHist >>
                [] OTHER ->
                     /\ eng' = [begun EXCEPT
                                  !.ret = -1,
                                  !.dirty = @ \/ outcome # "seek_failed"]
                     /\ res' = [res EXCEPT !.error = outcome]
                     /\ CASE outcome = "random_failed" -> ResourceFailure
                          [] outcome = "aborted" -> UserAbort
                          [] OTHER -> IoFailure
                     /\ UNCHANGED << pc, passLog, overwrites >>
    /\ UNCHANGED << fixedVars, cfg, authVars, sigVars, dmVars, calls >>

\* vfd = open(raw_path, O_RDONLY); if (vfd >= 0) ret = do_verify_pass,
\* close(vfd); a failed open leaves ret = 0.  Read errors, short reads and
\* mismatches count a verification failure; a seek failure and an abort by
\* the progress callback do not
SwVerify ==
    /\ InSw("sw_verify")
    /\ LET a == sw_pass_args(eng.alg, eng.p)
           called == [eng EXCEPT !.vlast = eng.p,
                                 !.vHandles = @ + 1 - 1]
       IN
         \E outcome \in {"ok", "open_failed", "seek_failed", "read_failed",
                         "short_read", "mismatch", "aborted", "trap"} :
           /\ outcome = "mismatch" => ~a.is_random
           /\ outcome = "trap" => FillPatternUndefined(a)
           /\ outcome = "aborted" => CallbackMayStop
           /\ CASE outcome = "ok" ->
                     /\ eng' = [called EXCEPT !.p = @ + 1]
                     /\ pc' = "sw_pass"
                     /\ UNCHANGED << envHist, res >>
                [] outcome = "open_failed" ->
                     /\ eng' = [eng EXCEPT !.p = @ + 1, !.vskip = eng.p]
                     /\ pc' = "sw_pass"
                     /\ IoFailure
                     /\ UNCHANGED res
                [] outcome = "trap" ->
                     /\ pc' = "crashed"
                     /\ eng' = [called EXCEPT !.vHandles = @ + 1]
                     /\ UNCHANGED << res, envHist >>
                [] OTHER ->
                     /\ eng' = [called EXCEPT !.ret = -1]
                     /\ pc' = "sw_pass"
                     /\ IF outcome = "aborted" THEN UserAbort ELSE IoFailure
                     /\ res' = [res EXCEPT
                                  !.error = outcome,
                                  !.verification_failures =
                                      IF outcome \in {"seek_failed", "aborted"}
                                      THEN @ ELSE @ + 1]
    /\ UNCHANGED << fixedVars, cfg, authVars, sigVars, dmVars, calls, passLog,
                    overwrites >>

\* after the switch: completed = (ret == 0), free, close, return ret
SwFinish ==
    /\ InSw("sw_pass")
    /\ ~SwLoopOn
    /\ res' = [res EXCEPT !.completed = (eng.ret = 0),
                          !.returned = IF eng.ret = 0 THEN "0" ELSE "-1"]
    /\ eng' = [eng EXCEPT !.frees = @ + eng.allocs, !.wCloses = @ + 1]
    /\ pc' = "sw_done"
    /\ UNCHANGED << fixedVars, cfg, authVars, sigVars, dmVars, calls,
                    passLog, overwrites, envHist >>

(***************************************************************************)
(* One pass, chunk by chunk: do_direct_pass (wipe.c) and do_write_pass     *)
(* (macos/secure_wipe.c)                                                   *)
(***************************************************************************)
\* sector size the Windows build aligns every transfer to
SectorSize == 512

\* write or read calls of one pass function that are interrupted, or
\* transfer less than asked, and after which the function goes on
MaxIoEvents == 1

\* buffer sizes, scaled down from WIPE_BUF_SIZE / BUF_SIZE, and device
\* sizes: the size ioctls report a whole number of sectors
BufSizes == {SectorSize, 2 * SectorSize}

DeviceSizes == {SectorSize, 2 * SectorSize, 3 * SectorSize, 5 * SectorSize}

\* one random pass, one single-byte pass, one three-byte pass
PassArgs == {GPRand, GP1(85), GP3(146, 73, 36)}

passFrame ==
    << buildVars, unitVars, cfg, authVars, sigVars, dmVars, engVars, calls >>

\* a pass function called on a device of size N with a buffer of size B
InitPass ==
    /\ prog = "pass"
    /\ platform \in Platforms
    /\ luksAvail = FALSE
    /\ cfg = [max_attempts |-> 0, current_attempts |-> 0, auth_methods |-> {},
              wipe_algorithm |-> "none", encrypt_before_wipe |-> FALSE,
              verify_passes |-> FALSE]
    /\ pc = "wp_seek"
    /\ authResult = "none"
    /\ authHist = [presented |-> 0, verifiedOk |-> FALSE]
    /\ sigmask = {}
    /\ sigign = {}
    /\ sigHist = [killed |-> FALSE]
    /\ steps = << >>
    /\ finished = << >>
    /\ calls = ZeroCalls
    /\ wipeArgs = NoArgs
    /\ fallbackArgs = NoArgs
    /\ wipe_result = 0
    /\ formatResult = "not_invoked"
    /\ eng = IdleEng
    /\ passLog = << >>
    /\ overwrites = 0
    /\ envHist = CalmEnv
    /\ res = ZeroRes
    /\ IdleUnits
    /\ \E e \in {"direct", "sw"}, n \in DeviceSizes, b \in BufSizes,
          a \in PassArgs, c \in BOOLEAN, v \in BOOLEAN :
         /\ e = "sw" => platform = "macos"
         /\ io = [IdleIo EXCEPT !.engine = e, !.N = n, !.B = b, !.a = a,
                                !.cb = c, !.verify = v, !.status = "run"]

\* size of the next transfer: the rest of the device, at most one buffer;
\* the Windows build of the unified engine rounds it down to whole sectors
PassChunk(remaining) ==
    LET chunk == IF remaining < io.B THEN remaining ELSE io.B
    IN  IF io.engine = "direct" /\ platform = "windows"
           /\ chunk % SectorSize # 0
        THEN (chunk \div SectorSize) * SectorSize
        ELSE chunk

\* byte counts a short transfer of a chunk may return; unbuffered Windows
\* disk handles transfer whole sectors
ShortCounts(chunk) ==
    ({0, SectorSize} \cup (IF platform = "windows" THEN {} ELSE {1}))
        \cap (0 .. chunk - 1)

\* the pass function returns st
PassReturn(f, st, why) ==
    /\ io' = [f EXCEPT !.status = st, !.why = why]
    /\ pc' = "wp_ret"

\* lseek / disk_seek to offset 0
WpSeek ==
    /\ prog = "pass"
    /\ pc = "wp_seek"
    /\ \E ok \in BOOLEAN :
         IF ok THEN pc' = "wp_loop" /\ UNCHANGED io
         ELSE PassReturn([io EXCEPT !.errSeen = TRUE], "fail", "seek")
    /\ UNCHANGED passFrame

\* the progress callback after a chunk has been accounted in frame f (it is
\* invoked when more than half a second has passed since the last report).
\* wipe_progress_cb returns non-zero to abort; vault_wipe_progress_cb
\* returns void, so what it wishes has no effect on the loop.
WpProgress_noabort(f) ==
    IF ~f.cb THEN io' = f /\ UNCHANGED pc
    ELSE \E stop \in (IF f.abortAt = -1 THEN BOOLEAN ELSE {FALSE}) :
           /\ io' = [f EXCEPT !.abortAt = IF stop THEN f.off ELSE @]
           /\ UNCHANGED pc

WpProgress(f) ==
    IF ~f.cb THEN io' = f /\ UNCHANGED pc
    ELSE \E stop \in (IF f.abortAt = -1 THEN BOOLEAN ELSE {FALSE}) :
           IF ~stop THEN io' = f /\ UNCHANGED pc
           ELSE IF f.engine = "sw"
                THEN PassReturn([f EXCEPT !.abortAt = f.off], "fail", "abort")
                ELSE io' = [f EXCEPT !.abortAt = f.off] /\ UNCHANGED pc

WriteOutcomes == {"full", "short", "eintr", "error", "random_failed"}

\* one iteration of the write loop
WpIter ==
    /\ prog = "pass"
    /\ pc = "wp_loop"
    /\ io.off < io.N
    /\ LET chunk == PassChunk(io.N - io.off)
           issued == [io EXCEPT
                         !.calls = @ + 1,
                         !.afterErr = @ + (IF io.errSeen THEN 1 ELSE 0),
                         !.afterAbort = @ + (IF io.abortAt >= 0 THEN 1 ELSE 0)]
       IN  IF chunk = 0
           THEN PassReturn(io, "ok", "none")
           ELSE \E o \in WriteOutcomes :
                  CASE o = "random_failed" ->
                         /\ io.a.is_random
                         /\ PassReturn(io, "fail", "random")
                    [] o = "eintr" ->
                         /\ platform # "windows"
                         /\ io.events < MaxIoEvents
                         /\ io' = [issued EXCEPT !.events = @ + 1,
                                                 !.intr = @ + 1]
                         /\ UNCHANGED pc
                    [] o = "error" ->
                         PassReturn([issued EXCEPT !.errSeen = TRUE],
                                    "fail", "write")
                    [] o = "short" ->
                         \E wr \in ShortCounts(chunk) :
                           LET put == IF wr = 0 THEN issued.chunks
                                      ELSE Append(issued.chunks,
                                                  [at |-> io.off, len |-> wr])
                           IN  IF io.engine = "sw"
                               THEN PassReturn(
                                        [issued EXCEPT !.chunks = put,
                                                       !.errSeen = TRUE],
                                        "fail", "short_write")
                               ELSE /\ io.events < MaxIoEvents
                                    /\ WpProgress(
                                         [issued EXCEPT !.chunks = put,
                                                        !.off = @ + wr,
                                                        !.events = @ + 1,
                                                        !.errSeen = TRUE])
                    [] o = "full" ->
                         WpProgress(
                             [issued EXCEPT
                                 !.off = @ + chunk,
                                 !.chunks = Append(@, [at |-> io.off,
                                                       len |-> chunk])])
    /\ UNCHANGED passFrame

\* the loop has covered the device: flush and return 0
WpSync ==
    /\ prog = "pass"
    /\ pc = "wp_loop"
    /\ io.off >= io.N
    /\ PassReturn(io, "ok", "none")
    /\ UNCHANGED passFrame

\* the caller's step after the write pass has returned (the loop of the
\* Gutmann case): a failed pass ends the loop; a verify pass follows a
\* successful deterministic pass when verification was requested
PassCaller ==
    /\ prog = "pass"
    /\ pc = "wp_ret"
    /\ IF io.status = "fail"
       THEN io' = [io EXCEPT !.next = "return"] /\ pc' = "it_done"
       ELSE IF io.verify /\ ~io.a.is_random
            THEN io' = [io EXCEPT !.vstatus = "run"] /\ pc' = "vp_open"
            ELSE io' = [io EXCEPT !.next = "next_pass"] /\ pc' = "it_done"
    /\ UNCHANGED passFrame

\* offsets at which the device may be changed behind the engine's back
CorruptOffsets == {0, 1, io.B - 1, io.B, io.N - 1} \cap (0 .. io.N - 1)

\* environment: one byte of the device is changed between the write pass
\* and its verify pass
DeviceChange ==
    /\ prog = "pass"
    /\ pc = "wp_ret"
    /\ io.status = "ok"
    /\ io.verify /\ ~io.a.is_random
    /\ io.corrupt = -1
    /\ \E o \in CorruptOffsets : io' = [io EXCEPT !.corrupt = o]
    /\ UNCHANGED << passFrame, pc >>

\* the verify step returns st to the caller's loop
VerifyReturn(f, st, why) ==
    /\ io' = [f EXCEPT !.vstatus = st, !.vwhy = why,
                       !.next = IF st = "fail" THEN "return"
                                ELSE "next_pass"]
    /\ pc' = "it_done"

\* the read-only handle: disk_open_read inside do_direct_verify; in
\* wipe_execute open(O_RDONLY), whose failure skips the verify pass, and
\* then the lseek at the head of do_verify_pass
VpOpen ==
    /\ prog = "pass"
    /\ pc = "vp_open"
    /\ \E o \in {"ok", "open_failed", "seek_failed"} :
         CASE o = "ok" -> pc' = "vp_loop" /\ UNCHANGED io
           [] o = "open_failed" ->
                IF io.engine = "sw" THEN VerifyReturn(io, "skipped", "open")
                ELSE VerifyReturn(io, "fail", "open")
           [] o = "seek_failed" ->
                /\ io.engine = "sw"
                /\ VerifyReturn(io, "fail", "seek")
    /\ UNCHANGED passFrame

Min(x, y) == IF x < y THEN x ELSE y

Max(x, y) == IF x < y THEN y ELSE x

\* bytes of the range [v, v + len) that lie in the written chunk c
Overlap(c, v, len) == Max(0, Min(c.at + c.len, v + len) - Max(c.at, v))

RECURSIVE CoveredBytes(_, _, _)
CoveredBytes(cs, v, len) ==
    IF cs = << >> THEN 0
    ELSE Overlap(Head(cs), v, len) + CoveredBytes(Tail(cs), v, len)

\* memcmp of the expected buffer with len bytes read at offset v. Both
\* fill_pattern calls start the pattern at the head of their buffer, so a
\* byte written by the chunk that started at c.at equals the expected byte
\* iff c.at and v are congruent modulo the pattern length.
DataDiffers(v, len) ==
    \/ (io.corrupt >= v /\ io.corrupt < v + len)
    \/ CoveredBytes(io.chunks, v, len) # len
    \/ \E i \in 1 .. Len(io.chunks) :
         /\ Overlap(io.chunks[i], v, len) > 0
         /\ (io.chunks[i].at - v) % io.a.pattern_len # 0

\* the progress callback of the verify loop
VpProgress(f) ==
    IF ~f.cb \/ f.engine # "sw" THEN io' = f /\ UNCHANGED pc
    ELSE \E stop \in BOOLEAN :
           IF stop THEN VerifyReturn(f, "fail", "abort")
           ELSE io' = f /\ UNCHANGED pc

ReadOutcomes == {"full", "short", "eintr", "error"}

\* one iteration of the verify loop
VpIter ==
    /\ prog = "pass"
    /\ pc = "vp_loop"
    /\ io.voff < io.N
    /\ LET chunk == PassChunk(io.N - io.voff)
           issued == [io EXCEPT !.reads = @ + 1]
       IN  IF chunk = 0
           THEN VerifyReturn(io, "ok", "none")
           ELSE \E o \in ReadOutcomes :
                  CASE o = "eintr" ->
                         /\ platform # "windows"
                         /\ io.events < MaxIoEvents
                         /\ io' = [issued EXCEPT !.events = @ + 1]
                         /\ UNCHANGED pc
                    [] o = "error" -> VerifyReturn(issued, "fail", "read")
                    [] o = "short" ->
                         \E rd \in ShortCounts(chunk) :
                           IF io.engine = "sw"
                           THEN VerifyReturn(issued, "fail", "short_read")
                           ELSE \* memcmp runs over the whole chunk: beyond
                                \* rd it reads what the buffer held before
                                /\ io.events < MaxIoEvents
                                /\ \E stale_differs \in BOOLEAN :
                                     IF stale_differs
                                        \/ DataDiffers(io.voff, rd)
                                     THEN VerifyReturn(
                                            [issued EXCEPT
                                                !.reported = io.voff],
                                            "fail", "mismatch")
                                     ELSE VpProgress(
                                            [issued EXCEPT
                                                !.voff = @ + rd,
                                                !.events = @ + 1])
                    [] o = "full" ->
                         IF DataDiffers(io.voff, chunk)
                         THEN VerifyReturn(
                                  [issued EXCEPT !.reported = io.voff],
                                  "fail", "mismatch")
                         ELSE VpProgress([issued EXCEPT !.voff = @ + chunk])
    /\ UNCHANGED passFrame

\* the verify loop has covered the device
VpDone ==
    /\ prog = "pass"
    /\ pc = "vp_loop"
    /\ io.voff >= io.N
    /\ VerifyReturn(io, "ok", "none")
    /\ UNCHANGED passFrame

(***************************************************************************)
(* Drive-type probes: wipe_detect_drive_type (macos/secure_wipe.c) and     *)
(* vault_wipe_is_ssd (wipe.c)                                              *)
(***************************************************************************)
\* every variable of the gate and of the engines at rest
GateIdle ==
    /\ luksAvail = FALSE
    /\ cfg = [max_attempts |-> 0, current_attempts |-> 0, auth_methods |-> {},
              wipe_algorithm |-> "none", encrypt_before_wipe |-> FALSE,
              verify_passes |-> FALSE]
    /\ authResult = "none"
    /\ authHist = [presented |-> 0, verifiedOk |-> FALSE]
    /\ sigmask = {}
    /\ sigign = {}
    /\ sigHist = [killed |-> FALSE]
    /\ steps = << >>
    /\ finished = << >>
    /\ calls = ZeroCalls
    /\ wipeArgs = NoArgs
    /\ fallbackArgs = NoArgs
    /\ wipe_result = 0
    /\ formatResult = "not_invoked"
    /\ eng = IdleEng
    /\ passLog = << >>
    /\ overwrites = 0
    /\ envHist = CalmEnv
    /\ res = ZeroRes
    /\ io = IdleIo

\* the loop bound of the registry walk
WalkDepth == 20

\* what a registry entry can show: conformance to IONVMeBlockStorageDevice
\* or IONVMeController; a "Device Characteristics" property (absent, a
\* dictionary without "Medium Type", or one whose Medium Type reads Solid
\* State / SSD, Rotational, or anything else); a "Solid State" property
\* (absent, a boolean, or of another type)
RegistryNodes ==
    [nvme : BOOLEAN,
     chars : {"absent", "no_medium", "solid state", "rotational", "other"},
     ss : {"absent", "true", "false", "not_bool"}]

\* lengths of the path from the media entry to the registry root; 0 stands
\* for a BSD name no IOMedia entry matches
ChainLens == 0 .. 3

RegistryChains == UNION {[1 .. n -> RegistryNodes] : n \in ChainLens}

\* the value each probe returns for a finding; "none" is the initial value
ProbeValue(fn, finding) ==
    IF fn = "wipe_detect_drive_type"
    THEN CASE finding = "nvme" -> "DRIVE_NVME"
           [] finding = "ssd"  -> "DRIVE_SSD"
           [] finding = "hdd"  -> "DRIVE_HDD"
           [] OTHER            -> "DRIVE_UNKNOWN"
    ELSE CASE finding = "nvme" -> 1
           [] finding = "ssd"  -> 1
           [] finding = "hdd"  -> 0
           [] OTHER            -> -1

\* device paths given to the Linux probe, character by character
LinuxDevices ==
    { << "/", "d", "e", "v", "/", "s", "d", "a" >>,
      << "/", "d", "e", "v", "/", "s", "d", "a", "2" >>,
      << "/", "d", "e", "v", "/", "s", "d", "n", "1" >>,
      << "/", "d", "e", "v", "/", "n", "v", "m", "e", "0", "n", "1" >>,
      << "/", "d", "e", "v", "/", "n", "v", "m", "e", "0", "n", "1", "p",
         "2" >>,
      << "n", "v", "m", "e", "1", "n", "1" >>,
      << "/", "d", "e", "v", "/", "m", "m", "c", "b", "l", "k", "0", "p",
         "1" >> }

\* the two probes of the macOS builds walk alike; the Linux probe takes a
\* device path and what /sys/block/<base>/queue/rotational holds, if it
\* can be opened
InitProbe ==
    /\ prog = "probe"
    /\ GateIdle
    /\ cli = Idle.cli /\ keys = Idle.keys /\ svc = Idle.svc /\ cp = Idle.cp
    /\ \/ /\ platform = "macos"
          /\ pc = "pr_match"
          /\ \E f \in {"wipe_detect_drive_type", "vault_wipe_is_ssd"},
                ch \in RegistryChains :
               probe = [fn |-> f, chain |-> ch, current |-> 0, depth |-> 0,
                        result |-> ProbeValue(f, "none"),
                        device |-> << >>, base |-> << >>, rot |-> "missing"]
       \/ /\ platform = "linux"
          /\ pc = "lx_name"
          /\ \E d \in LinuxDevices, r \in {"missing", "0", "1", "garbage"} :
               probe = [fn |-> "vault_wipe_is_ssd", chain |-> << >>,
                        current |-> 0, depth |-> 0, result |-> -1,
                        device |-> d, base |-> << >>, rot |-> r]
       \/ /\ platform = "windows"
          /\ pc = "pr_stub"
          /\ probe = [fn |-> "vault_wipe_is_ssd", chain |-> << >>,
                      current |-> 0, depth |-> 0, result |-> -1,
                      device |-> << >>, base |-> << >>, rot |-> "missing"]

\* the gate and the engines, but for the position pc
restVars ==
    << buildVars, io, cfg, authVars, sigVars, dmVars, engVars, calls >>

\* IOBSDNameMatching and IOServiceGetMatchingService: without a media
\* entry the probe returns its initial value
PrMatch ==
    /\ prog = "probe" /\ pc = "pr_match"
    /\ IF Len(probe.chain) = 0
       THEN pc' = "pr_done" /\ UNCHANGED probe
       ELSE /\ probe' = [probe EXCEPT !.current = 1]
            /\ pc' = "pr_walk"
    /\ UNCHANGED << restVars, cli, keys, svc, cp >>

\* IORegistryEntrySearchCFProperty with kIORegistryIterateRecursively |
\* kIORegistryIterateParents: the property of the nearest entry, from i
\* towards the root, that has it
SearchProperty(chain, i, key) ==
    LET has == {j \in i .. Len(chain) : chain[j][key] # "absent"}
    IN IF has = {} THEN "absent"
       ELSE chain[CHOOSE j \in has : \A k \in has : j <= k][key]

\* one iteration of the walk: the NVMe conformance test of the current
\* entry, the Medium Type of the Device Characteristics found from it, the
\* Solid State boolean found from it, then the step to the parent
PrWalk ==
    /\ prog = "probe" /\ pc = "pr_walk"
    /\ LET n == probe.chain[probe.current]
           chars == SearchProperty(probe.chain, probe.current, "chars")
           ss == SearchProperty(probe.chain, probe.current, "ss")
           found(f) == /\ probe' = [probe EXCEPT
                                      !.result = ProbeValue(probe.fn, f)]
                       /\ pc' = "pr_done"
       IN
         IF probe.depth >= WalkDepth THEN pc' = "pr_done" /\ UNCHANGED probe
         ELSE IF n.nvme THEN found("nvme")
         ELSE IF chars = "solid state" THEN found("ssd")
         ELSE IF chars = "rotational" THEN found("hdd")
         ELSE IF chars = "other" THEN pc' = "pr_done" /\ UNCHANGED probe
         ELSE IF ss = "true" THEN found("ssd")
         ELSE IF ss = "false" THEN found("hdd")
         ELSE IF probe.current = Len(probe.chain)
              THEN pc' = "pr_done" /\ UNCHANGED probe
         ELSE /\ probe' = [probe EXCEPT !.current = @ + 1, !.depth = @ + 1]
              /\ UNCHANGED pc
    /\ UNCHANGED << restVars, cli, keys, svc, cp >>

\* the build without IOKit (and the Windows build): always -1
PrStub ==
    /\ prog = "probe" /\ pc = "pr_stub"
    /\ pc' = "pr_done"
    /\ UNCHANGED << restVars, unitVars >>

\* strrchr(device, '/'): what follows the last slash, or all of it
AfterLastSlash(d) ==
    LET at == {i \in 1 .. Len(d) : d[i] = "/"}
    IN IF at = {} THEN d
       ELSE SubSeq(d, (CHOOSE i \in at : \A j \in at : j <= i) + 1, Len(d))

\* strncmp(s, prefix, Len(prefix)) == 0
HasPrefix(s, prefix) ==
    Len(s) >= Len(prefix) /\ SubSeq(s, 1, Len(prefix)) = prefix

\* name = strrchr(device, '/') + 1 (or device), copied to base
LxName ==
    /\ prog = "probe" /\ pc = "lx_name"
    /\ probe' = [probe EXCEPT !.base = AfterLastSlash(probe.device)]
    /\ pc' = "lx_strip"
    /\ UNCHANGED << restVars, cli, keys, svc, cp >>

\* one test of the loop that strips the partition number: a trailing digit
\* goes unless the character before it is 'n'
LxStrip ==
    /\ prog = "probe" /\ pc = "lx_strip"
    /\ LET b == probe.base
           len == Len(b)
           digits == {"0", "1", "2", "3", "4", "5", "6", "7", "8", "9"}
       IN IF len > 0 /\ b[len] \in digits /\ ~(len >= 2 /\ b[len - 1] = "n")
          THEN /\ probe' = [probe EXCEPT !.base = SubSeq(b, 1, len - 1)]
               /\ UNCHANGED pc
          ELSE /\ pc' = "lx_type"
               /\ UNCHANGED probe
    /\ UNCHANGED << restVars, cli, keys, svc, cp >>

\* strncmp(base, "nvme", 4) == 0 returns 1; otherwise the rotational flag
\* of the sysfs queue directory decides: no file -1, 0 is SSD, anything
\* else (an unparsable file too) is HDD
LxType ==
    /\ prog = "probe" /\ pc = "lx_type"
    /\ LET b == probe.base
       IN probe' = [probe EXCEPT
                      !.result =
                          IF HasPrefix(b, << "n", "v", "m", "e" >>) THEN 1
                          ELSE CASE probe.rot = "missing" -> -1
                                 [] probe.rot = "0" -> 1
                                 [] OTHER -> 0]
    /\ pc' = "pr_done"
    /\ UNCHANGED << restVars, cli, keys, svc, cp >>

NextProbe == PrMatch \/ PrWalk \/ PrStub \/ LxName \/ LxStrip \/ LxType

ProbeSpec == InitProbe /\ [][NextProbe]_vars

(***************************************************************************)
(* macos/secure_wipe.c: main of the standalone wiper                       *)
(***************************************************************************)
\* the process status of a main that returns v: the low eight bits
ExitStatus(v) == v % 256

\* main entered with a command line: what the option loop makes of it
\* (--help seen, an unknown option seen, or all options taken), the values
\* the options leave in the locals, and the effective user id
InitCli ==
    /\ prog = "secure_wipe"
    /\ platform = "macos"
    /\ GateIdle
    /\ probe = Idle.probe /\ keys = Idle.keys /\ svc = Idle.svc /\ cp = Idle.cp
    /\ pc = "cli_args"
    /\ \E o \in {"parsed", "help", "unknown"}, d \in BOOLEAN,
          a \in SwAlgorithms \cup {"ALG_COUNT"}, v \in BOOLEAN,
          f \in BOOLEAN, i \in BOOLEAN, u \in {0, 501} :
         cli = [entered |-> TRUE, options |-> o, device |-> d,
                algorithm |-> a, verify |-> v, force |-> f, info_only |-> i,
                euid |-> u, root |-> "unchecked", disk_size |-> "unread",
                confirm |-> "none", unmounts |-> 0, exit |-> "none"]

\* return v from main
CliReturn(v) ==
    /\ cli' = [cli EXCEPT !.exit = ExitStatus(v)]
    /\ pc' = "cli_exit"

\* the option loop and the test for --device
CliArgs ==
    /\ prog = "secure_wipe" /\ pc = "cli_args"
    /\ CASE cli.options = "help"    -> CliReturn(0)
         [] cli.options = "unknown" -> CliReturn(1)
         [] ~cli.device             -> CliReturn(1)
         [] OTHER -> pc' = "cli_root" /\ UNCHANGED cli
    /\ UNCHANGED << restVars, probe, keys, svc, cp >>

\* geteuid() != 0 returns 1
CliRoot ==
    /\ prog = "secure_wipe" /\ pc = "cli_root"
    /\ IF cli.euid # 0
       THEN CliReturn(1)
       ELSE /\ cli' = [cli EXCEPT !.root = "ok"]
            /\ pc' = "cli_info"
    /\ UNCHANGED << restVars, probe, keys, svc, cp >>

\* drive type and size are read and printed; --info ends here with 0; a
\* missing algorithm and a size of 0 end with 1
CliInfo ==
    /\ prog = "secure_wipe" /\ pc = "cli_info"
    /\ \E size \in {"zero", "positive"} :
         LET read == [cli EXCEPT !.disk_size = size]
         IN CASE cli.info_only ->
                   cli' = [read EXCEPT !.exit = ExitStatus(0)] /\ pc' = "cli_exit"
              [] ~cli.info_only /\ cli.algorithm = "ALG_COUNT" ->
                   cli' = [read EXCEPT !.exit = ExitStatus(1)] /\ pc' = "cli_exit"
              [] ~cli.info_only /\ cli.algorithm # "ALG_COUNT" /\ size = "zero" ->
                   cli' = [read EXCEPT !.exit = ExitStatus(1)] /\ pc' = "cli_exit"
              [] OTHER -> cli' = read /\ pc' = "cli_confirm"
    /\ UNCHANGED << restVars, probe, keys, svc, cp >>

\* without --force the user must type YES; end of input and any other
\* line end with 1
CliConfirm ==
    /\ prog = "secure_wipe" /\ pc = "cli_confirm"
    /\ IF cli.force
       THEN pc' = "cli_unmount" /\ UNCHANGED cli
       ELSE \E typed \in {"eof", "YES", "other"} :
              IF typed = "YES"
              THEN /\ cli' = [cli EXCEPT !.confirm = typed]
                   /\ pc' = "cli_unmount"
              ELSE /\ cli' = [cli EXCEPT !.confirm = typed,
                                         !.exit = ExitStatus(1)]
                   /\ pc' = "cli_exit"
    /\ UNCHANGED << restVars, probe, keys, svc, cp >>

\* system("diskutil unmountDisk ..."), then wipe_execute is called with
\* the algorithm and verify flag of the command line and cli_progress
CliUnmount ==
    /\ prog = "secure_wipe" /\ pc = "cli_unmount"
    /\ cli' = [cli EXCEPT !.unmounts = @ + 1]
    /\ eng' = [IdleEng EXCEPT !.caller = "main", !.alg = cli.algorithm,
                              !.verify = cli.verify]
    /\ pc' = "sw_size"
    /\ UNCHANGED << buildVars, io, cfg, authVars, sigVars, dmVars, calls,
                    passLog, overwrites, envHist, res, probe, keys, svc, cp >>

\* the report is printed and main returns what wipe_execute returned
CliReport ==
    /\ prog = "secure_wipe" /\ pc = "sw_done" /\ cli.entered
    /\ CliReturn(eng.ret)
    /\ UNCHANGED << restVars, probe, keys, svc, cp >>

NextCli ==
    \/ CliArgs \/ CliRoot \/ CliInfo \/ CliConfirm \/ CliUnmount
    \/ SwSize \/ SwOpen \/ SwAlloc \/ SwWrite \/ SwVerify \/ SwFinish
    \/ CliReport

CliSpec == InitCli /\ [][NextCli]_vars

(***************************************************************************)
(* Buffers that hold key material or a passphrase:                         *)
(* vault_luks_format_random_key (luks.c), the unlock block of main         *)
(* (main.c), the password branch of vault_auth_run (auth.c)                *)
(***************************************************************************)
\* bytes per buffer in the model
KeyBytes == 2

\* a buffer of n bytes all holding x: "?" is what the stack held before,
\* "r" a generated random byte, "c" a typed character, "0" a zero byte
Bytes(n, x) == [i \in 1 .. n |-> x]

\* the buffer after its first n bytes have been set to x
FillPrefix(buf, n, x) == [i \in 1 .. Len(buf) |-> IF i <= n THEN x ELSE buf[i]]

\* a function that owns such a buffer is entered.  vault_luks_format_random_key
\* exists where libcryptsetup does (Linux); main's unlock block runs where
\* vault_luks_available(); vault_auth_run runs on every platform
InitKeys ==
    /\ prog = "keys"
    /\ GateIdle
    /\ probe = Idle.probe /\ cli = Idle.cli /\ svc = Idle.svc /\ cp = Idle.cp
    /\ platform \in Platforms
    /\ \/ /\ platform = "linux"
          /\ pc = "kf_key"
          /\ keys = [fn |-> "vault_luks_format_random_key",
                     buf |-> [random_key |-> Bytes(KeyBytes, "?"),
                              random_passphrase |-> Bytes(KeyBytes + 1, "?")],
                     held |-> {}, n |-> 0, attempts |-> 0, max |-> 0,
                     ret |-> "none"]
       \/ /\ platform = "linux"
          /\ pc = "ul_login"
          /\ keys = [fn |-> "main",
                     buf |-> [unlock_pass |-> Bytes(KeyBytes + 1, "?")],
                     held |-> {}, n |-> 0, attempts |-> 0, max |-> 0,
                     ret |-> "none"]
       \/ /\ pc = "ka_login"
          /\ \E m \in 0 .. MaxAttempts :
               keys = [fn |-> "vault_auth_run",
                       buf |-> [password |-> Bytes(KeyBytes + 1, "?")],
                       held |-> {}, n |-> 0, attempts |-> 0, max |-> m,
                       ret |-> "none"]

\* the owning function returns v
KeysReturn(f, v) ==
    /\ keys' = [f EXCEPT !.ret = v]
    /\ pc' = "k_done"

\* vault_platform_random(random_key): the read loop fills the buffer or
\* fails after got bytes, and a failure returns -1 at once
KfRandomKey ==
    /\ prog = "keys" /\ pc = "kf_key"
    /\ \E got \in 0 .. KeyBytes :
         LET f == [keys EXCEPT
                     !.buf.random_key = FillPrefix(@, got, "r"),
                     !.held = IF got > 0 THEN @ \cup {"random_key"} ELSE @]
         IN IF got = KeyBytes
            THEN keys' = f /\ pc' = "kf_pass"
            ELSE KeysReturn(f, -1)
    /\ UNCHANGED << restVars, probe, cli, svc, cp >>

\* vault_platform_random(random_passphrase, sizeof - 1): a failure zeroes
\* random_key and returns -1; otherwise the terminator is set
KfRandomPass ==
    /\ prog = "keys" /\ pc = "kf_pass"
    /\ \E got \in 0 .. KeyBytes :
         LET f == [keys EXCEPT
                     !.buf.random_passphrase = FillPrefix(@, got, "r"),
                     !.held = IF got > 0 THEN @ \cup {"random_passphrase"}
                              ELSE @]
         IN IF got = KeyBytes
            THEN /\ keys' = [f EXCEPT !.buf.random_passphrase[KeyBytes + 1] = "0"]
                 /\ pc' = "kf_crypt"
            ELSE KeysReturn([f EXCEPT !.buf.random_key = Bytes(KeyBytes, "0")],
                            -1)
    /\ UNCHANGED << restVars, probe, cli, svc, cp >>

\* crypt_init, crypt_format, crypt_keyslot_add_by_volume_key: the first
\* failure, or the result of the last call, goes to the cleanup label
KfCrypt ==
    /\ prog = "keys" /\ pc = "kf_crypt"
    /\ \E o \in {"init_failed", "format_failed", "keyslot_failed", "ok"} :
         keys' = [keys EXCEPT !.ret = IF o = "ok" THEN 0 ELSE -22]
    /\ pc' = "kf_cleanup"
    /\ UNCHANGED << restVars, probe, cli, svc, cp >>

\* cleanup: both buffers are zeroed; return ret < 0 ? -1 : 0
KfCleanup ==
    /\ prog = "keys" /\ pc = "kf_cleanup"
    /\ KeysReturn([keys EXCEPT
                     !.buf.random_key = Bytes(KeyBytes, "0"),
                     !.buf.random_passphrase = Bytes(KeyBytes + 1, "0")],
                  IF keys.ret < 0 THEN -1 ELSE 0)
    /\ UNCHANGED << restVars, probe, cli, svc, cp >>

\* memset(buffer, 0), then vault_tui_login_screen stores the n characters
\* typed and returns n
LoginInto(name, n) ==
    [keys EXCEPT !.buf[name] = FillPrefix(Bytes(KeyBytes + 1, "0"), n, "c"),
                 !.held = IF n > 0 THEN @ \cup {name} ELSE @,
                 !.n = n]

\* main: memset(unlock_pass), vault_tui_login_screen
UlLogin ==
    /\ prog = "keys" /\ pc = "ul_login"
    /\ \E n \in 0 .. KeyBytes : keys' = LoginInto("unlock_pass", n)
    /\ pc' = "ul_open"
    /\ UNCHANGED << restVars, probe, cli, svc, cp >>

\* main: vault_luks_open if n > 0, vault_secure_memzero(unlock_pass), and
\* return 1 if the volume did not open
UlOpen ==
    /\ prog = "keys" /\ pc = "ul_open"
    /\ \E luks_ret \in (IF keys.n > 0 THEN {0, -1} ELSE {-1}) :
         KeysReturn([keys EXCEPT !.buf.unlock_pass = Bytes(KeyBytes + 1, "0")],
                    luks_ret)
    /\ UNCHANGED << restVars, probe, cli, svc, cp >>

\* vault_auth_run, password branch: memset(password), the login screen; an
\* empty entry counts an attempt; the loop ends with AUTH_FAILURE when the
\* attempts are used up
KaLogin ==
    /\ prog = "keys" /\ pc = "ka_login"
    /\ IF keys.attempts < keys.max
       THEN \E n \in 0 .. KeyBytes :
              IF n = 0
              THEN /\ keys' = [LoginInto("password", n) EXCEPT
                                 !.attempts = @ + 1]
                   /\ UNCHANGED pc
              ELSE /\ keys' = LoginInto("password", n)
                   /\ pc' = "ka_verify"
       ELSE KeysReturn(keys, "AUTH_FAILURE")
    /\ UNCHANGED << restVars, probe, cli, svc, cp >>

\* vault_auth_password_verify, the volatile zeroing loop over the whole
\* buffer, then return on success or count the attempt
KaVerify ==
    /\ prog = "keys" /\ pc = "ka_verify"
    /\ LET zeroed == [keys EXCEPT !.buf.password = Bytes(KeyBytes + 1, "0")]
       IN \E result \in {"AUTH_SUCCESS", "AUTH_FAILURE"} :
            IF result = "AUTH_SUCCESS"
            THEN KeysReturn(zeroed, result)
            ELSE /\ keys' = [zeroed EXCEPT !.attempts = @ + 1]
                 /\ pc' = "ka_login"
    /\ UNCHANGED << restVars, probe, cli, svc, cp >>

NextKeys ==
    \/ KfRandomKey \/ KfRandomPass \/ KfCrypt \/ KfCleanup
    \/ UlLogin \/ UlOpen \/ KaLogin \/ KaVerify

KeySpec == InitKeys /\ [][NextKeys]_vars

(***************************************************************************)
(* The Windows wipe service (vault-gate/windows/vault-gate-service.c):     *)
(* ServiceMain, the pipe-server thread and the control handler             *)
(***************************************************************************)
\* ServiceMain has reported SERVICE_RUNNING, created the stop event and
\* called CreateThread, which may have failed, and waits for the stop event.
\* step counts the steps of StepOrder the dead-man sequence has completed on
\* the pipe thread; the last one is the power-off
InitSvc ==
    /\ prog = "service"
    /\ platform = "windows"
    /\ GateIdle
    /\ probe = Idle.probe /\ cli = Idle.cli /\ keys = Idle.keys
    /\ cp = Idle.cp
    /\ pc = "svc_wait"
    /\ \E hThread \in BOOLEAN :
         svc = [main |-> "ServiceMain", hThread |-> hThread,
                dwCurrentState |-> "SERVICE_RUNNING", g_StopEvent |-> FALSE,
                pipe |-> IF hThread THEN "serving" ELSE "none",
                buffer |-> "none", dwCtrl |-> "none", step |-> 0]

\* ServiceCtrlHandler: the service control manager delivers a control while
\* the machine is up and the process lives; it sends STOP only to a service
\* that is running and accepts it (dwControlsAccepted never changes)
ServiceCtrlHandler ==
    /\ prog = "service" /\ pc \in {"svc_wait", "svc_cleanup"}
    /\ svc.step < Len(StepOrder)
    /\ \E dwCtrl \in {"SERVICE_CONTROL_STOP", "SERVICE_CONTROL_INTERROGATE",
                      "SERVICE_CONTROL_PAUSE"} :
         /\ dwCtrl = "SERVICE_CONTROL_STOP" =>
                svc.dwCurrentState = "SERVICE_RUNNING"
         /\ svc' = IF dwCtrl = "SERVICE_CONTROL_STOP"
                   THEN [svc EXCEPT !.dwCtrl = dwCtrl,
                                    !.dwCurrentState = "SERVICE_STOP_PENDING",
                                    !.g_StopEvent = TRUE]
                   ELSE [svc EXCEPT !.dwCtrl = dwCtrl]
    /\ UNCHANGED << restVars, pc, probe, cli, keys, cp >>

\* PipeServerThread, one turn of the loop: the thread returns if the stop
\* event is set; otherwise it creates the pipe, waits for a client and reads
\* a command, and on WIPE it enters trigger_wipe
PipeServerThread ==
    /\ prog = "service" /\ pc # "svc_exited"
    /\ svc.pipe = "serving"
    /\ IF svc.g_StopEvent
       THEN svc' = [svc EXCEPT !.pipe = "returned"]
       ELSE \E buffer \in {"create_failed", "connect_failed", "read_failed",
                           "WIPE", "AUTH_OK", "unknown"} :
              svc' = [svc EXCEPT
                           !.buffer = buffer,
                           !.pipe = IF buffer = "WIPE" THEN "trigger_wipe"
                                    ELSE @]
    /\ UNCHANGED << restVars, pc, probe, cli, keys, cp >>

\* trigger_wipe: vault_deadman_trigger runs on the pipe thread, one step of
\* StepOrder at a time; once the power-off has happened nothing runs
TriggerWipe ==
    /\ prog = "service" /\ pc # "svc_exited"
    /\ svc.pipe = "trigger_wipe"
    /\ svc.step < Len(StepOrder)
    /\ svc' = [svc EXCEPT !.step = @ + 1]
    /\ UNCHANGED << restVars, pc, probe, cli, keys, cp >>

\* ServiceMain: WaitForSingleObject(g_StopEvent, INFINITE) returns
ServiceMainWait ==
    /\ prog = "service" /\ pc = "svc_wait"
    /\ svc.step < Len(StepOrder)
    /\ svc.g_StopEvent
    /\ pc' = "svc_cleanup"
    /\ UNCHANGED << restVars, svc, probe, cli, keys, cp >>

\* ServiceMain, cleanup: WaitForSingleObject(hThread, 5000) returns when the
\* thread has ended or after five seconds, whichever comes first; the
\* handles are closed, SERVICE_STOPPED is reported and ServiceMain returns
ServiceMainCleanup ==
    /\ prog = "service" /\ pc = "svc_cleanup"
    /\ svc.step < Len(StepOrder)
    /\ \E wait \in {"WAIT_OBJECT_0", "WAIT_TIMEOUT"} :
          wait = "WAIT_OBJECT_0" => svc.pipe = "returned"
    /\ svc' = [svc EXCEPT !.main = "returned",
                          !.dwCurrentState = "SERVICE_STOPPED"]
    /\ pc' = "svc_stopped"
    /\ UNCHANGED << restVars, probe, cli, keys, cp >>

\* main: StartServiceCtrlDispatcherA returns once the service is stopped and
\* main returns 0, which ends the process and every thread in it
ServiceProcessExit ==
    /\ prog = "service" /\ pc = "svc_stopped"
    /\ svc.step < Len(StepOrder)
    /\ pc' = "svc_exited"
    /\ UNCHANGED << restVars, svc, probe, cli, keys, cp >>

NextSvc ==
    \/ ServiceCtrlHandler \/ PipeServerThread \/ TriggerWipe
    \/ ServiceMainWait \/ ServiceMainCleanup \/ ServiceProcessExit

SvcSpec == InitSvc /\ [][NextSvc]_vars

(***************************************************************************)
(* The Windows credential provider                                         *)
(* (vault-gate/windows/VaultGateProvider.cpp): CVaultGateCredential        *)
(***************************************************************************)
\* submissions to one credential object explored
MaxSubmissions == 7

\* CVaultGateCredential::CVaultGateCredential: no attempt made, the password
\* field empty, and m_nMaxAttempts the configured value raised to at least 1,
\* or 3 if the configuration cannot be loaded.  failed counts the submissions
\* that did not verify
InitCp ==
    /\ prog = "credential_provider"
    /\ platform = "windows"
    /\ GateIdle
    /\ probe = Idle.probe /\ cli = Idle.cli /\ keys = Idle.keys
    /\ svc = Idle.svc
    /\ pc = "cp_tile"
    /\ \E loaded \in BOOLEAN, max_attempts \in 0 .. MaxAttempts :
         cp = [at |-> "tile", m_nAttempts |-> 0,
               m_nMaxAttempts |-> IF ~loaded THEN 3
                                  ELSE IF max_attempts < 1 THEN 1
                                  ELSE max_attempts,
               m_szPassword |-> "", failed |-> 0, verified |-> "none",
               sent |-> "none"]

\* CVaultGateCredential::SetStringValue(VGF_PASSWORD, psz): the user types
\* the stored password or something else
SetStringValue ==
    /\ prog = "credential_provider" /\ pc = "cp_tile"
    /\ cp.sent # "WIPE"
    /\ \E psz \in {"", "right", "wrong"} :
         cp' = [cp EXCEPT !.m_szPassword = psz]
    /\ UNCHANGED << restVars, pc, probe, cli, keys, svc >>

\* CVaultGateCredential::GetSerialization: the submit handler.  VerifyPassword
\* succeeds if the configuration loads with a hash and the password matches
GetSerialization ==
    /\ prog = "credential_provider" /\ pc = "cp_tile"
    /\ cp.sent # "WIPE"
    /\ cp.m_nAttempts < MaxSubmissions
    /\ \E config_ok \in BOOLEAN :
         LET m_nAttempts == cp.m_nAttempts + 1
             ok == config_ok /\ cp.m_szPassword = "right"
         IN cp' = [cp EXCEPT
                     !.m_nAttempts = m_nAttempts,
                     !.m_szPassword = "",
                     !.verified = IF ok THEN "TRUE" ELSE "FALSE",
                     !.failed = IF ok THEN @ ELSE @ + 1,
                     !.sent = IF ok THEN "AUTH_OK"
                              ELSE IF m_nAttempts >= cp.m_nMaxAttempts
                              THEN "WIPE" ELSE @]
    /\ UNCHANGED << restVars, pc, probe, cli, keys, svc >>

NextCp == SetStringValue \/ GetSerialization

CpSpec == InitCp /\ [][NextCp]_vars

(***************************************************************************)
(* Environment: asynchronous signals / console control events              *)
(***************************************************************************)
InterruptEvents == IF platform = "windows" THEN WinCtrlEvents ELSE PosixSignals

Running == pc \notin {"exited", "powered_off", "killed", "dm_return"}

\* the first dead-man step has been executed
SignalsBlockedDone == Len(finished) >= 1

\* an event that is blocked or ignored has no effect; any other takes its
\* default disposition and ends (or stops) the process
DeliverSignal ==
    /\ prog = "vault"
    /\ Running
    /\ \E s \in InterruptEvents :
         IF s \in sigmask \cup sigign
         THEN UNCHANGED << sigHist, pc >>
         ELSE /\ sigHist' = [sigHist EXCEPT !.killed = SignalsBlockedDone]
              /\ pc' = "killed"
    /\ UNCHANGED << fixedVars, cfg, authVars, sigmask, sigign, dmVars, calls,
                    engVars >>

(***************************************************************************)
(* Specifications                                                          *)
(***************************************************************************)
NextProg ==
    \/ AuthPassword \/ AuthFingerprint \/ AuthVoice \/ AuthNoMethod
    \/ AuthThreshold
    \/ MainSuccess \/ MainTrigger \/ MainAfterTrigger
    \/ DmBlockSignals \/ DmWarning \/ DmCleanup \/ DmEncrypt \/ DmWipe
    \/ DmWipeRet \/ DmSync \/ DmPowerOff
    \/ WdEntry \/ WdFork \/ WdWait
    \/ EngSize \/ EngOpen \/ EngAlloc \/ EngWrite \/ EngVerify \/ EngCleanup
    \/ EngReturn
    \/ SwSize \/ SwOpen \/ SwAlloc \/ SwWrite \/ SwVerify \/ SwFinish

Next == NextProg \/ DeliverSignal

Spec == Init /\ [][Next]_vars

\* every called step returns and the thread keeps running: no signal is
\* delivered, and the next statement is eventually executed
LiveSpec == Init /\ [][NextProg]_vars /\ WF_vars(NextProg)

\* one pass function called on its own, with every outcome of each call
NextPass ==
    \/ WpSeek \/ WpIter \/ WpSync
    \/ DeviceChange \/ PassCaller
    \/ VpOpen \/ VpIter \/ VpDone

PassSpec == InitPass /\ [][NextPass]_vars

(***************************************************************************)
(* Claims about the dead-man sequence                                      *)
(***************************************************************************)
IsPrefix(s, t) == Len(s) <= Len(t) /\ \A i \in 1 .. Len(s) : s[i] = t[i]

\* C1: in every execution of vault_deadman_trigger the steps block signals,
\* countdown warning, pre-wipe cleanup, optional pre-encryption, wipe, sync,
\* power-off are entered at most once each and in exactly this order, and
\* a step is entered only after its predecessor has finished; the fallback
\* wipe runs inside the wipe step, after the primary call has returned.
C1_StepsInOrder ==
    /\ IsPrefix(steps, StepOrder)
    /\ IsPrefix(finished, steps)
    /\ Len(steps) - Len(finished) <= 1
    /\ Len(steps) > Len(finished) => steps[Len(steps)] = "wipe"
    /\ calls.fallback > 0 =>
         /\ Len(steps) >= 5
         /\ calls.wipe_device = 1
         /\ wipe_result # 0

\* C1 witness: a run that needed the fallback has powered the machine off
\* with all seven steps done
C1_Witness ==
    /\ pc = "powered_off"
    /\ calls.fallback = 1
    /\ steps = StepOrder
    /\ finished = StepOrder

\* the dead-man sequence has handed control back (to main) or ended
DeadmanLeft == calls.trigger = 1 /\ pc \in {"dm_return", "exited", "powered_off"}

\* C2: every execution of vault_deadman_trigger eventually invokes
\* vault_platform_shutdown, whatever cleanup, pre-encryption, the primary
\* wipe and the fallback wipe return, and control never leaves the function
\* before that invocation.
C2_AlwaysPowerOff ==
    /\ (calls.trigger = 1) ~> (calls.shutdown = 1)
    /\ [](DeadmanLeft => calls.shutdown = 1)

\* C2 witness: shutdown was invoked after pre-encryption failed, the
\* primary wipe failed and the fallback wipe failed too
C2_Witness ==
    /\ calls.shutdown = 1
    /\ formatResult = "failed"
    /\ wipe_result # 0
    /\ calls.fallback = 1
    /\ overwrites = 0

\* the wipe step has finished (the sequence is at or past sync)
WipeStepDone == Len(finished) >= 5

\* C3: when the primary vault_wipe_device call reports failure exactly one
\* further wipe is invoked, vault_wipe_device_direct with WIPE_RANDOM and
\* verify off, so the engine is invoked exactly twice; when the primary
\* call reports success the fallback is never invoked; whatever the fallback
\* returns there is no third invocation.
C3_OneFallback ==
    /\ calls.wipe_device <= 1
    /\ calls.fallback <= 1
    /\ calls.fallback = 1 =>
         /\ wipe_result # 0
         /\ fallbackArgs = [set |-> TRUE, algorithm |-> "WIPE_RANDOM",
                            verify |-> FALSE]
    /\ calls.fallback = 0 => ~fallbackArgs.set
    /\ WipeStepDone =>
         /\ calls.wipe_device = 1
         /\ calls.fallback = (IF wipe_result # 0 THEN 1 ELSE 0)
         /\ calls.wipe_device + calls.fallback =
              (IF wipe_result # 0 THEN 2 ELSE 1)

\* C3 witness: the primary wipe failed, the fallback ran and failed as well
\* (no pass completed), and the sequence went on to power off after exactly
\* two invocations
C3_Witness ==
    /\ pc = "powered_off"
    /\ wipe_result # 0
    /\ calls.wipe_device + calls.fallback = 2
    /\ passLog = << >>
    /\ overwrites = 0

\* C5: the destructive pre-encryption is invoked if and only if
\* encrypt_before_wipe is set and vault_luks_available() is true, and whether
\* it was not invoked, succeeded or failed, the step executed next is the
\* wipe, called with the configured algorithm and verify flag.
C5_EncryptThenWipe ==
    /\ [](/\ calls.format <= 1
          /\ Len(finished) < 4 => calls.format = 0
          /\ Len(finished) >= 4 =>
               (calls.format = 1 <=> (cfg.encrypt_before_wipe /\ luksAvail))
          /\ (formatResult = "not_invoked") <=> (calls.format = 0)
          /\ wipeArgs.set =>
               /\ wipeArgs.algorithm = cfg.wipe_algorithm
               /\ wipeArgs.verify = cfg.verify_passes
          /\ Len(steps) >= 5 <=> wipeArgs.set)
    /\ [][pc = "dm_encrypt" => pc' \in {"dm_wipe", "dm_encrypt", "killed"}]_vars
    /\ [][pc = "dm_wipe" =>
            \/ pc' \in {"dm_wipe", "killed"}
            \/ /\ pc' = "wd_entry"
               /\ calls'.wipe_device = 1
               /\ wipeArgs' = [set |-> TRUE,
                               algorithm |-> cfg.wipe_algorithm,
                               verify |-> cfg.verify_passes]]_vars

\* C5 witness: the pre-encryption was invoked and failed, and the wipe has
\* been called with the configured arguments
C5_Witness ==
    /\ formatResult = "failed"
    /\ pc = "wd_entry"
    /\ wipeArgs.set
    /\ wipeArgs.algorithm = cfg.wipe_algorithm
    /\ wipeArgs.verify = cfg.verify_passes

(***************************************************************************)
(* Claims about the authentication gate                                    *)
(***************************************************************************)
\* C7: main calls vault_deadman_trigger only after vault_auth_run returned
\* without success, which happens only once current_attempts has reached
\* max_attempts; every loop iteration that does not authenticate raises
\* current_attempts by exactly 1; no run in which a verification returned
\* AUTH_SUCCESS reaches the trigger.
C7_TriggerOnlyAfterThreshold ==
    /\ [](/\ calls.trigger <= 1
          /\ calls.trigger = 1 =>
               /\ authResult = "AUTH_FAILURE"
               /\ ~authHist.verifiedOk
          /\ authHist.verifiedOk <=> authResult = "AUTH_SUCCESS"
          /\ authResult = "AUTH_FAILURE" =>
               /\ cfg.current_attempts >= cfg.max_attempts
               /\ cfg.max_attempts >= 0 =>
                    cfg.current_attempts = cfg.max_attempts)
    /\ [][(pc = "auth_loop" /\ pc' = "auth_loop") =>
            cfg'.current_attempts = cfg.current_attempts + 1]_vars

\* C7 witness: the trigger was called after two counted failed attempts
C7_Witness ==
    /\ calls.trigger = 1
    /\ cfg.max_attempts >= 2
    /\ cfg.current_attempts = cfg.max_attempts
    /\ authHist.presented >= 2

(***************************************************************************)
(* Claims about what the dead-man sequence guarantees                      *)
(***************************************************************************)
\* no failure of the environment at all: device I/O (size, open, seek,
\* read, write, compare) and also allocation and the random source
NoEnvironmentFailure == ~envHist.io /\ ~envHist.resource

\* C4: for every wipe_algorithm the configuration can hold and whether or
\* not the external tool is installed, a dead-man run in which device I/O
\* does not fail reaches power-off only after at least one complete
\* overwrite pass of the target device (by the external tool, the direct
\* engine or the random fallback).
C4_OverwriteBeforePowerOff ==
    (prog = "vault" /\ calls.shutdown >= 1 /\ NoEnvironmentFailure)
        => overwrites >= 1

\* C6: blocking of the interruption signals is the first action of the
\* sequence and is never undone: from the end of the first step on, every
\* interruption event of the platform is blocked or ignored, so none
\* delivered after the first step ends the process before the later steps.
C6_SignalsStayBlocked ==
    (prog = "vault" /\ SignalsBlockedDone) =>
        /\ InterruptEvents \subseteq (sigmask \cup sigign)
        /\ ~sigHist.killed

(***************************************************************************)
(* Claims about the pass plans                                             *)
(***************************************************************************)
\* the published pass counts, by algorithm of either engine
PublishedPasses(alg) ==
    CASE alg \in {"WIPE_GUTMANN", "ALG_GUTMANN"}        -> 35
      [] alg \in {"WIPE_DOD_522022", "ALG_DOD_522022M"} -> 7
      [] alg \in {"WIPE_DOD_SHORT", "ALG_SCHNEIER"}     -> 3
      [] alg \in {"WIPE_RANDOM", "ALG_RANDOM"}          -> 1
      [] alg \in {"WIPE_ZERO", "ALG_ZERO"}              -> 1
      [] alg = "WIPE_VERIFY_ONLY"                       -> 0

DirectEngineReturning == prog = "vault" /\ pc = "eng_ret"

SwEngineReturned == prog = "secure_wipe" /\ pc = "sw_done"

\* C8: for every algorithm the number of write passes the engine plans and,
\* on a fully successful run, executes equals the published count: Gutmann
\* 35, DoD 7, Schneier / DoD-short 3, Random 1, Zero 1, VerifyOnly 0 (no
\* pass is ever written for VerifyOnly, and no run writes more passes than
\* published).
C8_PassCounts ==
    /\ \A a \in WipeAlgorithms : direct_total_passes(a) = PublishedPasses(a)
    /\ \A a \in SwAlgorithms : wipe_algorithm_passes(a) = PublishedPasses(a)
    /\ wipe_algorithm_passes("ALG_COUNT") = 0
    /\ prog = "vault" /\ eng.caller # "none" =>
         /\ Len(passLog) <= PublishedPasses(eng.alg)
         /\ (DirectEngineReturning /\ eng.ret = 0) =>
              Len(passLog) = PublishedPasses(eng.alg)
         /\ eng.alg = "WIPE_VERIFY_ONLY" => Len(passLog) = 0
    /\ prog = "secure_wipe" =>
         /\ Len(passLog) <= PublishedPasses(eng.alg)
         /\ res.passes_completed = Len(passLog)
         /\ (SwEngineReturned /\ res.completed) =>
              /\ Len(passLog) = PublishedPasses(eng.alg)
              /\ res.total_passes = PublishedPasses(eng.alg)

\* C8 witness: a Gutmann run of the unified engine returning success after
\* 35 write passes
C8_Witness ==
    /\ DirectEngineReturning
    /\ eng.alg = "WIPE_GUTMANN"
    /\ eng.ret = 0
    /\ Len(passLog) = 35

\* rotation k (0, 1, 2) of a three-byte sequence: s, then s shifted left
Rotation(s, k) ==
    << s[1 + (k % 3)], s[1 + ((k + 1) % 3)], s[1 + ((k + 2) % 3)] >>

Rotations(s) == { Rotation(s, k) : k \in 0 .. 2 }

Seq92 == << 146, 73, 36 >>

Seq6D == << 109, 182, 219 >>

\* the single bytes 0x00, 0x11, ..., 0xFF
SweepBytes == { 17 * k : k \in 0 .. 15 }

\* what the claim as stated requires of the pass written as number p
StatedEffectOk(p, e) ==
    CASE p \in (1 .. 4) \cup (32 .. 35) -> e.is_random
      [] p = 5          -> ~e.is_random /\ e.pattern = << 85 >>
      [] p = 6          -> ~e.is_random /\ e.pattern = << 170 >>
      [] p \in 7 .. 9   -> ~e.is_random /\ e.pattern \in Rotations(Seq92)
      [] p \in 10 .. 25 -> ~e.is_random /\ e.pattern = << 17 * (p - 10) >>
      [] p = 26         -> ~e.is_random /\ \E b \in SweepBytes : e.pattern = << b >>
      [] p \in 27 .. 29 -> ~e.is_random /\ e.pattern \in Rotations(Seq92)
      [] p \in 30 .. 31 -> ~e.is_random /\ e.pattern \in Rotations(Seq6D)

PublishedGutmann(p) ==
    CASE p \in (1 .. 4) \cup (32 .. 35) -> GPRand
      [] p = 5                          -> GP1(85)
      [] p = 6                          -> GP1(170)
      [] p \in 7 .. 9                   -> [is_random |-> FALSE, pattern_len |-> 3,
                                            pattern |-> Rotation(Seq92, p - 7)]
      [] p \in 10 .. 25                 -> GP1(17 * (p - 10))
      [] p \in 26 .. 28                 -> [is_random |-> FALSE, pattern_len |-> 3,
                                            pattern |-> Rotation(Seq92, p - 26)]
      [] p \in 29 .. 31                 -> [is_random |-> FALSE, pattern_len |-> 3,
                                            pattern |-> Rotation(Seq6D, p - 29)]

PublishedDod ==
    << DodPass(FALSE, 0), DodPass(FALSE, 255), DodPass(TRUE, 0),
       DodPass(FALSE, 0), DodPass(FALSE, 255), DodPass(TRUE, 0),
       DodPass(TRUE, 0) >>

\* what pass p of the DoD plan leaves on the device
DodEffect(p) ==
    [is_random |-> PublishedDod[p].is_random,
     pattern |-> IF PublishedDod[p].is_random THEN << >>
                 ELSE << PublishedDod[p].byte >>]

\* C10: the DoD 5220.22-M plan is exactly the ordered seven passes 0x00,
\* 0xFF, random, 0x00, 0xFF, random, random, and the unified engine and the
\* standalone macOS utility both execute them in that order.
C10_DodPlan ==
    /\ dod_passes = PublishedDod
    /\ sw_dod_passes = PublishedDod
    /\ direct_total_passes("WIPE_DOD_522022") = 7
    /\ sw_loop_passes("ALG_DOD_522022M") = 7
    /\ (eng.alg \in {"WIPE_DOD_522022", "ALG_DOD_522022M"}) =>
         /\ Len(passLog) <= 7
         /\ \A i \in 1 .. Len(passLog) : passLog[i] = DodEffect(i)
         /\ ((DirectEngineReturning \/ SwEngineReturned) /\ eng.ret = 0) =>
              Len(passLog) = 7

\* C10 witness: a DoD run of the unified engine returning success with the
\* seven passes written
C10_Witness ==
    /\ DirectEngineReturning
    /\ eng.alg = "WIPE_DOD_522022"
    /\ eng.ret = 0
    /\ Len(passLog) = 7

(***************************************************************************)
(* Claims about one pass                                                   *)
(***************************************************************************)
CeilDiv(n, b) == (n + b - 1) \div b

WritePassReturned == prog = "pass" /\ pc = "wp_ret"

\* C11: for every device size N > 0 and buffer size B, a write pass that
\* reports success has written exactly N bytes, contiguously from offset 0,
\* with ceil(N / B) write calls (an interrupted call that is restarted
\* counts once), every chunk of size B except the last (of size N mod B, or
\* B when B divides N); no write reaches beyond offset N, and success is
\* never reported with fewer than N bytes written.
C11_WritePassCoversDevice ==
    /\ \A i \in 1 .. Len(io.chunks) :
         io.chunks[i].at + io.chunks[i].len <= io.N
    /\ (WritePassReturned /\ io.status = "ok") =>
         /\ io.off = io.N
         /\ io.calls - io.intr = CeilDiv(io.N, io.B)
         /\ Len(io.chunks) = CeilDiv(io.N, io.B)
         /\ \A i \in 1 .. Len(io.chunks) :
              /\ io.chunks[i].at = (i - 1) * io.B
              /\ io.chunks[i].len =
                   IF i < Len(io.chunks) THEN io.B
                   ELSE io.N - (i - 1) * io.B

\* C12: within a write pass a seek failure, a short write or a write error
\* aborts the pass at once with a failure result: no further write call is
\* issued after such an event and the chunk is not retried.
C12_WriteErrorAborts ==
    (prog = "pass" /\ io.errSeen) =>
        /\ pc \in {"wp_ret", "it_done"}
        /\ io.status = "fail"
        /\ io.afterErr = 0

\* the callback asked to stop after K bytes of the write pass, 0 < K < N
AbortRequested == prog = "pass" /\ io.abortAt > 0 /\ io.abortAt < io.N

\* the write pass stopped at the request: it returned failure with the
\* user-abort outcome at once, with fewer than N bytes written, and the
\* caller's loop runs no later pass
StoppedAtRequest ==
    /\ pc \in {"wp_ret", "it_done"}
    /\ io.status = "fail"
    /\ io.why = "abort"
    /\ io.off = io.abortAt
    /\ io.afterAbort = 0
    /\ CoveredBytes(io.chunks, 0, io.N) < io.N
    /\ io.vstatus = "none"
    /\ pc = "it_done" => io.next = "return"

\* C13 as stated: when the progress callback requests an abort after K
\* bytes of a pass (0 < K < N), the engine stops that pass between chunks
\* with fewer than N bytes written, runs no later pass and reports a
\* user-abort outcome distinct from a write error, in wipe_execute and in
\* vault_wipe_device_direct alike.
C13_AbortStopsEitherEngine == AbortRequested => StoppedAtRequest

\* C13: when the progress callback of wipe_execute returns non-zero after K
\* bytes of a write pass (0 < K < N), that pass stops between chunks with
\* fewer than N bytes written, no later pass or verify step runs, and the
\* outcome is the user abort, not a write error. The progress callback of
\* vault_wipe_device_direct returns nothing: no pass of the unified engine
\* ends with the user-abort outcome.
C13_AbortStopsWipeExecute ==
    /\ (AbortRequested /\ io.engine = "sw") => StoppedAtRequest
    /\ (prog = "pass" /\ io.engine = "direct") =>
           io.why # "abort" /\ io.vwhy # "abort"

\* C13 witness: wipe_execute's loop has ended on an abort requested after
\* the first of several chunks
C13_Witness ==
    /\ AbortRequested
    /\ io.engine = "sw"
    /\ pc = "it_done"
    /\ io.why = "abort"
    /\ io.abortAt = io.B
    /\ io.next = "return"

(***************************************************************************)
(* Claims about an engine run                                              *)
(***************************************************************************)
\* the pass loop of the running engine call has ended on a failure of
\* pass eng.p
SwLoopFailed ==
    prog = "secure_wipe" /\ pc = "sw_done" /\ eng.ret = -1 /\ eng.p >= 1

DirectLoopFailed ==
    /\ prog = "vault" /\ pc = "eng_ret" /\ eng.ret = -1 /\ eng.p >= 1
    /\ eng.alg \in DirectCases

\* C14: for every algorithm and every pass index k, if pass k is the first
\* pass to fail, in its write or in its requested verification, the engine
\* executes no pass after k and returns failure with completed = false and
\* passes_completed = k - 1.
C14_FirstFailureEndsRun ==
    /\ SwLoopFailed =>
         /\ eng.started = eng.p
         /\ ~res.completed
         /\ res.returned = "-1"
         /\ res.passes_completed = eng.p - 1
    /\ DirectLoopFailed => eng.started = eng.p

\* no call failed and the progress callback never asked to stop
UndisturbedRun == NoEnvironmentFailure /\ ~envHist.abort

\* wipe_execute is over: it has returned or the process has died in it
SwEngineEnded == prog = "secure_wipe" /\ pc \in {"sw_done", "crashed"}

\* C15: for every algorithm A and either value of verify, a wipe_execute run
\* in which no I/O operation fails returns success with passes_completed =
\* passes_total = pass_count(A), verification_failures = 0 and completed =
\* true.
C15_CleanRunSucceeds ==
    (SwEngineEnded /\ UndisturbedRun) =>
        /\ pc = "sw_done"
        /\ res.returned = "0"
        /\ res.passes_completed = PublishedPasses(eng.alg)
        /\ res.total_passes = PublishedPasses(eng.alg)
        /\ res.verification_failures = 0
        /\ res.completed

\* the descriptor of pass k of the algorithm the running engine was given
PassOf(k) ==
    IF prog = "vault" THEN direct_pass_args(eng.alg, k)
    ELSE sw_pass_args(eng.alg, k)

EngineRunning ==
    \/ prog = "vault" /\ eng.caller # "none"
    \/ prog = "secure_wipe"

\* the engine has gone on from pass k to the next one
WentOnFrom(k) ==
    /\ EngineRunning
    /\ pc \in {"eng_pass", "sw_pass"}
    /\ eng.ret = 0
    /\ eng.p = k + 1

VerifyCompared ==
    /\ prog = "pass"
    /\ pc = "it_done"
    /\ io.status = "ok"
    /\ ~io.a.is_random
    /\ io.vstatus \in {"ok", "fail"}
    /\ io.vwhy \in {"none", "mismatch"}

\* C17: write-then-verify round trip: after a successful pattern pass,
\* verifying the unmodified device succeeds; if exactly one byte at an
\* offset o < N was changed after the write, the verify fails with a
\* mismatch whose reported offset is o.
C17_VerifyRoundTrip ==
    VerifyCompared =>
        IF io.corrupt = -1 THEN io.vstatus = "ok"
        ELSE /\ io.vstatus = "fail"
             /\ io.vwhy = "mismatch"
             /\ io.reported = io.corrupt

\* vault_wipe_device has returned to the dead-man sequence
WipeDeviceReturned == prog = "vault" /\ pc = "dm_wipe_ret"

\* C18: on Linux vault_wipe_device invokes the direct engine, with the same
\* algorithm and verify flag, exactly once whenever the external tool is
\* absent or its run does not end with exit status 0, including when the
\* child cannot be started or waited for, and returns that engine's result;
\* when the tool exits with status 0 it returns success without invoking
\* the direct engine.
C18_DirectEngineUnlessToolSucceeds ==
    (prog = "vault" /\ platform = "linux") =>
      /\ eng.caller = "wipe_device" =>
           eng.alg = wipeArgs.algorithm /\ eng.verify = wipeArgs.verify
      /\ WipeDeviceReturned =>
           IF envHist.tool = "exit_0"
           THEN wipe_result = 0 /\ calls.direct = 0
           ELSE calls.direct = 1 /\ envHist.lastRet = wipe_result

\* the engine call is about to return to its caller
EngineReturning ==
    \/ prog = "vault" /\ pc = "eng_ret"
    \/ prog = "secure_wipe" /\ pc = "sw_done"

\* C19: in both engines every device handle opened during a wipe call (the
\* write handle and each read-only verify handle) and every allocated buffer
\* is released exactly once before the call returns, on every exit path:
\* success, size / open / allocation failure, write failure, verify failure
\* and abort.
C19_ResourcesReleased ==
    /\ EngineRunning =>
         /\ eng.wCloses <= eng.wOpens
         /\ eng.wOpens <= 1
         /\ eng.frees <= eng.allocs
         /\ eng.vHandles >= 0
    /\ EngineReturning =>
         /\ eng.wCloses = eng.wOpens
         /\ eng.frees = eng.allocs
         /\ eng.vHandles = 0

\* C19 witness: a call that opened the device, allocated both buffers and
\* ran a verify pass returns after that verify pass failed
C19_Witness ==
    /\ EngineReturning
    /\ eng.ret = -1
    /\ eng.wOpens = 1
    /\ eng.allocs = 2
    /\ eng.vlast = eng.p
    /\ eng.p >= 1

\* C20: a byte is written to the device only after the device size has been
\* determined to be non-zero and the write handle has been opened: if size
\* determination or the open for writing fails, the engine returns failure
\* having executed zero passes and written zero bytes.
C20_NoWriteBeforeSizeAndOpen ==
    EngineRunning =>
      /\ (eng.dirty \/ eng.started > 0 \/ Len(passLog) > 0) =>
             eng.sized /\ eng.wOpens = 1
      /\ (EngineReturning /\ (~eng.sized \/ eng.wOpens = 0)) =>
             /\ eng.ret = -1
             /\ eng.started = 0
             /\ ~eng.dirty
             /\ Len(passLog) = 0
             /\ prog = "secure_wipe" =>
                  /\ res.returned = "-1"
                  /\ res.passes_completed = 0
                  /\ ~res.completed

\* C20 witness: the unified engine returns after the open for writing
\* failed on a device whose size it had determined
C20_Witness ==
    /\ prog = "vault"
    /\ pc = "eng_ret"
    /\ eng.sized
    /\ eng.wOpens = 0
    /\ eng.ret = -1

(***************************************************************************)
(* Claims about the drive-type probes                                      *)
(***************************************************************************)
\* the probed device is an NVMe device: an entry conforming to an NVMe
\* class on the walked part of its registry path, or an nvme device name
NvmeIdentified ==
    \/ /\ platform = "macos"
       /\ \E i \in 1 .. Len(probe.chain) : i <= WalkDepth /\ probe.chain[i].nvme
    \/ /\ platform = "linux"
       /\ HasPrefix(AfterLastSlash(probe.device), << "n", "v", "m", "e" >>)

\* C21: a probe of a device identified as NVMe returns the NVMe value
\* (DRIVE_NVME from wipe_detect_drive_type, 1 from vault_wipe_is_ssd),
\* whatever Medium Type, Solid State or rotational signals are visible from
\* the media entry or from entries visited before the NVMe one.
C21_NvmePrecedence ==
    (prog = "probe" /\ pc = "pr_done" /\ NvmeIdentified) =>
        probe.result = ProbeValue(probe.fn, "nvme")

(***************************************************************************)
(* Claims about the standalone wiper's main                                *)
(***************************************************************************)
\* main ends without anything having gone wrong: help was asked for, the
\* drive information was asked for and shown, or the wipe succeeded
CliNothingWrong ==
    \/ cli.options = "help"
    \/ cli.options = "parsed" /\ cli.device /\ cli.root = "ok" /\ cli.info_only
    \/ res.returned = "0"

\* an unmount, an open for writing or a write has happened
CliDestructive == cli.unmounts > 0 \/ eng.wOpens > 0 \/ eng.dirty

\* C22: the standalone wipe CLI exits with status 0 when the wipe succeeds
\* and with status exactly 1 on every error or cancellation path, also
\* when wipe_execute reports failure; and nothing destructive (unmount,
\* open for writing, write) happens unless the privilege check has passed.
C22_CliExitStatus ==
    (prog = "secure_wipe" /\ cli.entered) =>
        /\ pc = "cli_exit" =>
               cli.exit = (IF CliNothingWrong THEN 0 ELSE 1)
        /\ CliDestructive => cli.root = "ok"

(***************************************************************************)
(* Claims about the pass descriptors                                       *)
(***************************************************************************)
\* the engine is about to hand pass eng.p to its write function or has
\* handed it to its verify function
HandedToExecutor ==
    /\ EngineRunning
    /\ \/ pc = "eng_pass" /\ DirectLoopOn
       \/ pc = "sw_pass" /\ SwLoopOn
       \/ pc \in {"eng_verify", "sw_verify"}

\* C23: every pass descriptor of every algorithm handed to the write or
\* verify function of either engine satisfies the descriptor invariant: a
\* pass that is not random has pattern length 1 or 3, never 0; this covers
\* all 35 entries of both Gutmann tables and the DoD, Schneier, Random and
\* Zero passes.
C23_PatternLength ==
    HandedToExecutor =>
        (~PassOf(eng.p).is_random => PassOf(eng.p).pattern_len \in {1, 3})

(***************************************************************************)
(* Claims about verification                                               *)
(***************************************************************************)
\* C24: with verify requested, a deterministic pass (and with it the run)
\* is reported as successful only if its read-back was carried out; a
\* verification that could not be carried out, for instance because the
\* read-only re-open failed, is never reported as success: the engine
\* neither goes on to the next pass nor returns with ret = 0 after it.
C24_NoSuccessWithoutReadBack ==
    (EngineRunning /\ eng.verify /\ eng.ret = 0) =>
        (eng.vskip = 0 \/ PassOf(eng.vskip).is_random)

(***************************************************************************)
(* Claims about the bytes a pattern pass leaves                            *)
(***************************************************************************)
\* the written chunks that cover device offset o
ChunksOver(o) ==
    {i \in 1 .. Len(io.chunks) :
        io.chunks[i].at <= o /\ o < io.chunks[i].at + io.chunks[i].len}

\* the byte the pass put at offset o through chunk i: fill_pattern fills
\* the buffer from its index 0 and the chunk is written from there
ByteFromChunk(i, o) ==
    io.a.pattern[((o - io.chunks[i].at) % io.a.pattern_len) + 1]

\* C25: after a successful pattern pass with a pattern of length L (1 or 3)
\* over a device of size N the device holds the sequence repeated without a
\* break: for every offset o < N the byte at o is pattern[o mod L], also
\* across chunk boundaries when the buffer size is not a multiple of L.
C25_PatternUnbroken ==
    (WritePassReturned /\ io.status = "ok" /\ ~io.a.is_random) =>
        \A o \in 0 .. io.N - 1 :
            /\ ChunksOver(o) # {}
            /\ \A i \in ChunksOver(o) :
                 ByteFromChunk(i, o) = io.a.pattern[(o % io.a.pattern_len) + 1]

\* every byte of the buffer is zero
Zeroed(buf) == \A i \in 1 .. Len(buf) : buf[i] = "0"

\* C26: a buffer that received generated key material or a typed passphrase
\* is all zero when the function that owns it has returned, on success and on
\* every failure return, and in vault_auth_run after every verification
C26_SensitiveBuffersZeroed ==
    (prog = "keys" /\ pc \in {"k_done", "ka_login"}) =>
        \A b \in keys.held : Zeroed(keys.buf[b])

\* C27: while the dead-man sequence entered through trigger_wipe on the pipe
\* thread has not reached the power-off, ServiceMain has not reported
\* SERVICE_STOPPED and returned
C27_StopCannotPreemptWipe ==
    (prog = "service" /\ svc.pipe = "trigger_wipe"
       /\ svc.step < Len(StepOrder)) =>
        ~(svc.main = "returned" /\ svc.dwCurrentState = "SERVICE_STOPPED")

\* C28: WIPE is sent to the service only by a failed submission and only
\* when the number of failed submissions has reached m_nMaxAttempts
C28_WipeOnlyAtFailureThreshold ==
    (prog = "credential_provider" /\ cp.sent = "WIPE") =>
        /\ cp.verified = "FALSE"
        /\ cp.failed >= cp.m_nMaxAttempts

\* C29: every iteration of a write loop or of a verify loop that does not
\* end the pass moves the written / verified byte count toward N, so no
\* 0-byte transfer and no interrupted call leaves a pass where it was
C29_IterationAdvancesOrEnds ==
    [][prog = "pass" =>
         /\ (pc = "wp_loop" /\ pc' = "wp_loop") => io'.off > io.off
         /\ (pc = "vp_loop" /\ pc' = "vp_loop") => io'.voff > io.voff]_vars

\* C30: vault_auth_run returns AUTH_FAILURE only after it has presented at
\* least one authentication attempt, whatever max_attempts the configuration
\* holds
C30_AttemptBeforeFailure ==
    (prog = "vault" /\ authResult = "AUTH_FAILURE") =>
        authHist.presented >= 1

====
